---------------------------- MODULE Spec2Model ----------------------------
(***************************************************************************)
(* A model of the attribute/relationship validation engine of              *)
(* go-json-spec-handler (package jsh): Validator.Validate, the recursive   *)
(* walker validateStruct / nestedResult, the tag decoder, the zero-value   *)
(* detector, the relationship binder and the Object.ProcessCreate /        *)
(* Object.ProcessUpdate entry points.                                      *)
(*                                                                         *)
(* Go strings on which the code computes (field names, JSON keys, tags,    *)
(* paths, pointers, resource ids) are sequences of one-character strings,  *)
(* so that splitting, case folding, lower-casing of the first rune,        *)
(* joining and number parsing are computed as the code computes them.      *)
(* Strings that the code only stores (titles, details) are TLA+ strings.   *)
(***************************************************************************)
EXTENDS Integers, Sequences, FiniteSets, TLC

-----------------------------------------------------------------------------
(* Bounds of the model *)

\* the longest slice / array / JSON array / linkage list that is enumerated
MaxLen == 2

\* the number of iteration orders of a Go map that one call may draw from
\* (6: every order of up to three keys)
MaxOrders == 2

\* the number of errors that are added to one Document
MaxErrors == 2

-----------------------------------------------------------------------------
(* Characters and strings *)

UpperChars == <<"A","B","C","D","E","F","G","H","I","J","K","L","M",
                "N","O","P","Q","R","S","T","U","V","W","X","Y","Z">>
LowerChars == <<"a","b","c","d","e","f","g","h","i","j","k","l","m",
                "n","o","p","q","r","s","t","u","v","w","x","y","z">>
DigitChars == <<"0","1","2","3","4","5","6","7","8","9">>

Range(s) == { s[i] : i \in DOMAIN s }

IsUpper(c) == c \in Range(UpperChars)
IsLetter(c) == c \in Range(UpperChars) \cup Range(LowerChars)
IsDigit(c) == c \in Range(DigitChars)

\* unicode.ToLower on one rune
ToLowerRune(c) ==
  IF IsUpper(c)
  THEN LowerChars[CHOOSE i \in DOMAIN UpperChars : UpperChars[i] = c]
  ELSE c

\* strings.EqualFold
EqualFold(a, b) ==
  /\ Len(a) = Len(b)
  /\ \A i \in DOMAIN a : ToLowerRune(a[i]) = ToLowerRune(b[i])

\* toLowerFirstRune changes the first rune of the given string to lower case
toLowerFirstRune(s) ==
  IF Len(s) = 0 THEN s ELSE <<ToLowerRune(s[1])>> \o Tail(s)

\* strings.SplitN(s, sep, -1) for a one-character separator
RECURSIVE SplitFrom(_, _, _, _)
SplitFrom(s, sep, i, cur) ==
  IF i > Len(s) THEN <<cur>>
  ELSE IF s[i] = sep THEN <<cur>> \o SplitFrom(s, sep, i + 1, <<>>)
  ELSE SplitFrom(s, sep, i + 1, Append(cur, s[i]))

Split(s, sep) == SplitFrom(s, sep, 1, <<>>)

\* strconv.Itoa for a non-negative index
RECURSIVE Itoa(_)
Itoa(n) ==
  IF n < 10 THEN <<DigitChars[n + 1]>>
  ELSE Itoa(n \div 10) \o <<DigitChars[(n % 10) + 1]>>

DigitVal(c) == (CHOOSE i \in DOMAIN DigitChars : DigitChars[i] = c) - 1

RECURSIVE DigitsVal(_, _)
DigitsVal(s, acc) ==
  IF Len(s) = 0 THEN acc ELSE DigitsVal(Tail(s), acc * 10 + DigitVal(Head(s)))

\* strconv.Atoi: an optional sign followed by at least one decimal digit
Atoi(s) ==
  LET signed == Len(s) > 0 /\ s[1] \in {"+", "-"}
      body   == IF signed THEN Tail(s) ELSE s
  IN  IF Len(body) = 0 \/ \E i \in DOMAIN body : ~IsDigit(body[i])
      THEN [ok |-> FALSE, n |-> 0]
      ELSE [ok |-> TRUE,
            n  |-> IF signed /\ s[1] = "-"
                   THEN 0 - DigitsVal(body, 0) ELSE DigitsVal(body, 0)]

\* lexicographic order on strings of the character set of the model
CharRank(c) ==
  IF IsDigit(c) THEN DigitVal(c)
  ELSE IF IsUpper(c) THEN 10 + (CHOOSE i \in DOMAIN UpperChars : UpperChars[i] = c)
  ELSE IF c \in Range(LowerChars)
       THEN 40 + (CHOOSE i \in DOMAIN LowerChars : LowerChars[i] = c)
  ELSE 0

RECURSIVE StrLess(_, _)
StrLess(a, b) ==
  IF Len(b) = 0 THEN FALSE
  ELSE IF Len(a) = 0 THEN TRUE
  ELSE IF CharRank(Head(a)) # CharRank(Head(b))
       THEN CharRank(Head(a)) < CharRank(Head(b))
  ELSE StrLess(Tail(a), Tail(b))

-----------------------------------------------------------------------------
(* String constants of the package *)

tagIgnore      == <<"-">>
tagSep         == ","
tagToOne       == <<"o","n","e">>
tagToMany      == <<"m","a","n","y">>
tagCreate      == <<"c","r","e","a","t","e">>
tagUpdate      == <<"u","p","d","a","t","e">>
optionSep      == "/"
optionRequired == <<"r","e","q","u","i","r","e","d">>
fieldSep       == <<"/">>


-----------------------------------------------------------------------------
(* Tag decoder *)

PunctChars == {"!","#","$","%","&","(",")","*","+","-",".","/",":","<","=",
               ">","?","@","[","]","^","_","{","|","}","~"," "}

\* isValidTag returns false if the tag is empty or contains invalid characters
isValidTag(s) ==
  /\ s # <<>>
  /\ \A i \in DOMAIN s : s[i] \in PunctChars \/ IsLetter(s[i]) \/ IsDigit(s[i])

\* options that would be required whenever the last part is "required"
segmentOptionsSuffix(jshTag) ==
  [required |-> jshTag[Len(jshTag)] = optionRequired]

\* the options of one tag segment: required iff it has exactly two parts and
\* the second is "required"
segmentOptions(jshTag) ==
  [required |-> Len(jshTag) = 2 /\ jshTag[2] = optionRequired]

\* decodeFieldTags decodes all JSH tags of a struct field: a function from
\* tag name to its options; a later segment overrides an earlier one
decodeFieldTags(rawTags) ==
  LET options == Split(rawTags, tagSep)
      jshTag  == [i \in DOMAIN options |-> Split(options[i], optionSep)]
      valid   == { i \in DOMAIN options : isValidTag(jshTag[i][1]) }
      names   == { jshTag[i][1] : i \in valid }
      last(n) == CHOOSE i \in valid :
                   /\ jshTag[i][1] = n
                   /\ \A j \in valid : jshTag[j][1] = n => j <= i
  IN  [n \in names |-> segmentOptions(jshTag[last(n)])]

\* tags[name]: a nil *tagOptions when the map has no entry
tagLookup(tags, name) ==
  IF name \in DOMAIN tags
  THEN [nil |-> FALSE, required |-> tags[name].required]
  ELSE [nil |-> TRUE, required |-> FALSE]

\* decodeJSONTag returns the first JSON tag of the given struct field.
\* strings.SplitN never returns an empty slice, so the field name is never used.
decodeJSONTag(f) ==
  LET tags == Split(f.json, tagSep)
  IN  IF Len(tags) = 0 THEN f.name ELSE tags[1]

-----------------------------------------------------------------------------
(* Errors *)

AttributePrefix == <<"/","d","a","t","a","/","a","t","t","r","i","b","u","t","e","s","/">>
RelationshipPrefix == <<"/","d","a","t","a","/","r","e","l","a","t","i","o","n","s","h","i","p","s","/">>

\* AttributePointer returns a JSON pointer to the given attribute
AttributePointer(attribute) == AttributePrefix \o attribute

\* RelationshipPointer returns a JSON pointer to the given relationship
RelationshipPointer(relationship) == RelationshipPrefix \o relationship

\* An Error: pointer <<>> stands for a nil Source
MkError(status, title, detail, pointer, ise) ==
  [status |-> status, title |-> title, detail |-> detail,
   pointer |-> pointer, ise |-> ise]

ISE(internalMessage) ==
  MkError(500, "Internal Server Error", "Request failed, something went wrong",
          <<>>, internalMessage)

InputError(msg, attribute) ==
  MkError(422, "Invalid Attribute", msg, AttributePointer(attribute), "")

RelationshipError(msg, relationship) ==
  MkError(422, "Invalid Relationship", msg, RelationshipPointer(relationship), "")

ForbiddenError(msg) == MkError(403, msg, "", <<>>, "")

BadRequestError(msg, detail) == MkError(400, msg, detail, <<>>, "")

ConflictError(resourceType, id) ==
  MkError(409, "Resource conflict",
          IF id = <<>> THEN "Resource type does not match URL's"
          ELSE "ID does not match URL's", <<>>, "")

\* a ForbiddenError whose Source would not be set
ForbiddenNoSource(pointer) == ForbiddenError("Operation not allowed")

\* ForbiddenError with its Source set to the given pointer afterwards
ForbiddenAt(pointer) == [ForbiddenError("Operation not allowed") EXCEPT !.pointer = pointer]

-----------------------------------------------------------------------------
(* Go values as reflect sees them.  k is the reflect.Kind, t the type.     *)

VInvalid == [k |-> "invalid"]

\* z is the zero value of the element type of a slice, map or nil pointer
\* (what reflect.New / reflect.Zero of that type gives)
VStr(s) == [k |-> "string", t |-> "string", str |-> s]
VInt(n) == [k |-> "int", t |-> "int", n |-> n]
VFloat(n) == [k |-> "float64", t |-> "float64", n |-> n]
VPtr(t, e) == [k |-> "ptr", t |-> t, nil |-> FALSE, e |-> e]
VNilPtr(t, z) == [k |-> "ptr", t |-> t, nil |-> TRUE, e |-> z]
VIface(e) == [k |-> "interface", t |-> "interface{}", nil |-> FALSE, e |-> e]
VNilIface == [k |-> "interface", t |-> "interface{}", nil |-> TRUE, e |-> VInvalid]
VSlice(t, z, s) == [k |-> "slice", t |-> t, nil |-> FALSE, s |-> s, z |-> z]
VNilSlice(t, z) == [k |-> "slice", t |-> t, nil |-> TRUE, s |-> <<>>, z |-> z]
VArray(t, s) == [k |-> "array", t |-> t, s |-> s]
\* key is the kind of the key type, et the element type
VMap(t, key, et, z, m) ==
  [k |-> "map", t |-> t, key |-> key, et |-> et, nil |-> FALSE, m |-> m, z |-> z]
VNilMap(t, key, et, z) ==
  [k |-> "map", t |-> t, key |-> key, et |-> et, nil |-> TRUE, m |-> <<>>, z |-> z]
VStruct(t, f) == [k |-> "struct", t |-> t, f |-> f]

\* A struct field: its name, its json and jsh struct tags, whether it is
\* unexported (PkgPath # ""), and its value
Field(name, json, jsh, v) == [name |-> name, json |-> json, jsh |-> jsh, pkg |-> FALSE, v |-> v]
PrivateField(name, json, jsh, v) == [name |-> name, json |-> json, jsh |-> jsh, pkg |-> TRUE, v |-> v]

\* A resource identifier (IDObject) and the *IDObject value pointing to it
IDObject(tp, id) == [type |-> tp, id |-> id]
sType == <<"T","y","p","e">>
sID   == <<"I","D">>
IDValue(d) ==
  VPtr("*IDObject",
       VStruct("IDObject", << Field(sType, <<"t","y","p","e">>, <<>>, VStr(d.type)),
                              Field(sID, <<"i","d">>, <<>>, VStr(d.id)) >>))

\* A *Relationship of Object.Relationships (nil for a null entry)
Relationship(data) == [nil |-> FALSE, data |-> data]
NilRelationship == [nil |-> TRUE, data |-> <<>>]

-----------------------------------------------------------------------------
(* Raw JSON messages (json.RawMessage), by their content *)

JAbsent == [k |-> "absent"]            \* len(j) = 0
JNull == [k |-> "null"]
JStr(s) == [k |-> "string", str |-> s]
JNum(n) == [k |-> "number", n |-> n]
JArr(s) == [k |-> "array", arr |-> s]
JObj(m) == [k |-> "object", m |-> m]   \* m: a function from keys to messages

\* decodeKeys decodes the keys of the given JSON message
decodeKeys(j) ==
  IF j.k = "absent" \/ j.k = "null" THEN [err |-> <<>>, attrs |-> <<>>]
  ELSE IF j.k = "object" THEN [err |-> <<>>, attrs |-> j.m]
  ELSE [err |-> <<ISE("json: cannot unmarshal into Go value of type map[string]json.RawMessage")>>,
        attrs |-> <<>>]

\* decodeSlice decodes the given JSON array into a slice of JSON messages
decodeSlice(j) ==
  IF j.k = "absent" \/ j.k = "null" THEN [err |-> <<>>, attrs |-> <<>>]
  ELSE IF j.k = "array" THEN [err |-> <<>>, attrs |-> j.arr]
  ELSE [err |-> <<ISE("json: cannot unmarshal into Go value of type []json.RawMessage")>>,
        attrs |-> <<>>]

-----------------------------------------------------------------------------
(* Iteration orders *)

\* a sort that would put the keys in descending order
RECURSIVE SortKeysDescending(_)
SortKeysDescending(K) ==
  IF K = {} THEN <<>>
  ELSE LET last == CHOOSE x \in K : \A y \in K \ {x} : StrLess(y, x)
       IN  <<last>> \o SortKeysDescending(K \ {last})

\* the keys of K in ascending order (sort.Sort with stringValues.Less)
RECURSIVE SortKeys(_)
SortKeys(K) ==
  IF K = {} THEN <<>>
  ELSE LET m == CHOOSE x \in K : \A y \in K \ {x} : StrLess(x, y)
       IN  <<m>> \o SortKeys(K \ {m})

\* The order in which one range loop visits the keys K of a Go map: Go does
\* not define it.  ord, chosen per call, selects a permutation of the keys
\* (its digits in the factorial number system pick the next key among the
\* remaining ones).
RECURSIVE Permute(_, _)
Permute(s, ord) ==
  IF Len(s) = 0 THEN <<>>
  ELSE LET i == (ord % Len(s)) + 1
       IN  <<s[i]>> \o Permute(SubSeq(s, 1, i - 1) \o SubSeq(s, i + 1, Len(s)),
                               ord \div Len(s))

RangeOrder(K, ord) == Permute(SortKeys(K), ord)

\* delete(m, name)
MapDelete(m, name) == [x \in DOMAIN m \ {name} |-> m[x]]

\* m[key] = v
MapSet(m, key, v) == [x \in DOMAIN m \cup {key} |-> IF x = key THEN v ELSE m[x]]

-----------------------------------------------------------------------------
(* Zero-value detector *)

\* the comparison of v.Interface() with the zero value of its type, for the
\* kinds that reach the default case of isZero
scalarIsZero(v) ==
  IF v.k = "string" THEN v.str = <<>>
  ELSE IF v.k \in {"int", "float64"} THEN v.n = 0
  ELSE IF v.k \in {"ptr", "interface"} THEN v.nil
  ELSE FALSE

\* isZero checks if the given value is the zero value of its type: "zero",
\* "nonzero", or "panic" when v.Interface() is called on a value obtained
\* through an unexported field (ro).  z = z && isZero(..) does not evaluate
\* isZero once z is false.
RECURSIVE isZero(_, _), isZeroFrom(_, _, _)
isZero(v, ro) ==
  IF v.k \in {"map", "slice"} THEN (IF v.nil THEN "zero" ELSE "nonzero")
  ELSE IF v.k \in {"array", "struct"} THEN isZeroFrom(v, ro, 1)
  ELSE IF ro THEN "panic"
  ELSE IF scalarIsZero(v) THEN "zero" ELSE "nonzero"

isZeroFrom(v, ro, i) ==
  LET n == IF v.k = "array" THEN Len(v.s) ELSE Len(v.f)
  IN  IF i > n THEN "zero"
      ELSE LET z == IF v.k = "array" THEN isZero(v.s[i], ro)
                    ELSE isZero(v.f[i].v, ro \/ v.f[i].pkg)
           IN  IF z = "zero" THEN isZeroFrom(v, ro, i + 1) ELSE z

-----------------------------------------------------------------------------
(* Presence and permission of one field *)

\* a validateModelField that would not ask for required fields
validateModelFieldLax(path, v, opts) ==
  [hasValue |-> isZero(v, FALSE) = "nonzero" /\ ~opts.nil, panic |-> FALSE,
   err |-> IF isZero(v, FALSE) = "nonzero" /\ opts.nil
           THEN <<ForbiddenAt(AttributePointer(toLowerFirstRune(path)))>> ELSE <<>>]

\* a validateModelField that would ask for the jsh tag before it looks at the
\* value
validateModelFieldTagFirst(path, v, opts) ==
  LET z == isZero(v, FALSE)
  IN  IF z = "panic" THEN [hasValue |-> FALSE, err |-> <<>>, panic |-> TRUE]
      ELSE IF opts.nil
      THEN [hasValue |-> FALSE, panic |-> FALSE,
            err |-> <<ForbiddenAt(AttributePointer(toLowerFirstRune(path)))>>]
      ELSE IF z = "zero"
      THEN IF opts.required
           THEN [hasValue |-> FALSE, panic |-> FALSE,
                 err |-> <<InputError("Required attribute", toLowerFirstRune(path))>>]
           ELSE [hasValue |-> FALSE, panic |-> FALSE, err |-> <<>>]
      ELSE [hasValue |-> TRUE, panic |-> FALSE, err |-> <<>>]

\* validateModelField validates that the value for the given field is
\* neither missing or forbidden according to jsh tags
validateModelField(path, v, opts) ==
  LET z == isZero(v, FALSE)
  IN  IF z = "panic" THEN [hasValue |-> FALSE, err |-> <<>>, panic |-> TRUE]
      ELSE IF z = "zero"
      THEN IF ~opts.nil /\ opts.required
           THEN [hasValue |-> FALSE, panic |-> FALSE,
                 err |-> <<InputError("Required attribute", toLowerFirstRune(path))>>]
           ELSE [hasValue |-> FALSE, panic |-> FALSE, err |-> <<>>]
      ELSE IF opts.nil
      THEN [hasValue |-> FALSE, panic |-> FALSE,
            err |-> <<ForbiddenAt(AttributePointer(toLowerFirstRune(path)))>>]
      ELSE [hasValue |-> TRUE, panic |-> FALSE, err |-> <<>>]

\* a validateModelRelationship that would ask for the jsh tag before it looks
\* at the linkage data
validateModelRelationshipTagFirst(name, many, rel, opts) ==
  IF rel.nil
  THEN IF ~opts.nil /\ opts.required
       THEN [hasValue |-> FALSE,
             err |-> <<RelationshipError("Required relationship", toLowerFirstRune(name))>>]
       ELSE [hasValue |-> FALSE, err |-> <<>>]
  ELSE IF opts.nil
  THEN [hasValue |-> FALSE,
        err |-> <<ForbiddenAt(RelationshipPointer(toLowerFirstRune(name)))>>]
  ELSE IF Len(rel.data) = 0
  THEN [hasValue |-> FALSE,
        err |-> <<RelationshipError("Missing relationship data", toLowerFirstRune(name))>>]
  ELSE IF ~many /\ Len(rel.data) > 1
  THEN [hasValue |-> FALSE,
        err |-> <<RelationshipError("Multiple objects for to-one relation", toLowerFirstRune(name))>>]
  ELSE [hasValue |-> TRUE, err |-> <<>>]

\* validateModelRelationship validates that the given struct has no forbidden
\* or invalid relationships for the jsh action
validateModelRelationship(name, many, rel, opts) ==
  IF rel.nil
  THEN IF ~opts.nil /\ opts.required
       THEN [hasValue |-> FALSE,
             err |-> <<RelationshipError("Required relationship", toLowerFirstRune(name))>>]
       ELSE [hasValue |-> FALSE, err |-> <<>>]
  ELSE IF Len(rel.data) = 0
  THEN [hasValue |-> FALSE,
        err |-> <<RelationshipError("Missing relationship data", toLowerFirstRune(name))>>]
  ELSE IF ~many /\ Len(rel.data) > 1
  THEN [hasValue |-> FALSE,
        err |-> <<RelationshipError("Multiple objects for to-one relation", toLowerFirstRune(name))>>]
  ELSE IF opts.nil
  THEN [hasValue |-> FALSE,
        err |-> <<ForbiddenAt(RelationshipPointer(toLowerFirstRune(name)))>>]
  ELSE [hasValue |-> TRUE, err |-> <<>>]

-----------------------------------------------------------------------------
(* Relationship binder *)

\* reflect.TypeOf(*IDObject).AssignableTo(t): the type itself, or the empty
\* interface
IDAssignableTo(t) == t \in {"*IDObject", "interface{}"}

\* a v.Set / v.SetMapIndex that would store a nil *IDObject
StoredNil(t, d) == VNilPtr("*IDObject", VInvalid)

\* the value stored by v.Set(one) / v.SetMapIndex(key, dv)
StoredID(t, d) == IF t = "interface{}" THEN VIface(IDValue(d)) ELSE IDValue(d)

\* a setModelRelationshipOne that would refuse a field that is already set
setModelRelationshipOneOnce(v, rel, addr) ==
  IF ~IDAssignableTo(v.t) \/ ~v.nil
  THEN [err |-> <<ISE("Invalid field type for to-one relation, must be *IDObject")>>,
        v |-> v, panic |-> FALSE]
  ELSE IF ~addr THEN [err |-> <<>>, v |-> v, panic |-> TRUE]
  ELSE [err |-> <<>>, v |-> StoredID(v.t, rel.data[1]), panic |-> FALSE]

\* setModelRelationshipOne sets the given field (v) of the model to the given
\* to-one relationship value.  v.Set panics on a value that is not addressable.
setModelRelationshipOne(v, rel, addr) ==
  IF ~IDAssignableTo(v.t)
  THEN [err |-> <<ISE("Invalid field type for to-one relation, must be *IDObject")>>,
        v |-> v, panic |-> FALSE]
  ELSE IF ~addr THEN [err |-> <<>>, v |-> v, panic |-> TRUE]
  ELSE [err |-> <<>>, v |-> StoredID(v.t, rel.data[1]), panic |-> FALSE]

\* a loop that would check every id before it sets the first entry
RECURSIVE setManyChecked(_, _, _, _)
setManyChecked(name, v, rel, i) ==
  IF i > Len(rel.data) THEN [err |-> <<>>, v |-> v, panic |-> FALSE]
  ELSE IF /\ i = 1 /\ v.key = "int" /\ IDAssignableTo(v.et)
          /\ \E k \in DOMAIN rel.data : ~Atoi(rel.data[k].id).ok
  THEN [err |-> <<RelationshipError("Invalid resource ID", toLowerFirstRune(name))>>,
        v |-> v, panic |-> FALSE]
  ELSE LET data == rel.data[i]
       IN  IF ~IDAssignableTo(v.et)
           THEN [err |-> <<ISE("Invalid map value type for to-many relation, must be *IDObject")>>,
                 v |-> v, panic |-> FALSE]
           ELSE IF v.nil THEN [err |-> <<>>, v |-> v, panic |-> TRUE]
           ELSE setManyChecked(name,
                  [v EXCEPT !.m = MapSet(v.m, IF v.key = "string" THEN data.id ELSE Atoi(data.id).n,
                                         StoredID(v.et, data))], rel, i + 1)

\* one iteration of the loop over rel.Data in setModelRelationshipMany, for a
\* map keyed by string or int: the entries set before an error or a panic
\* stay in the map
RECURSIVE setManyFrom(_, _, _, _)
setManyFrom(name, v, rel, i) ==
  IF i > Len(rel.data) THEN [err |-> <<>>, v |-> v, panic |-> FALSE]
  ELSE LET data == rel.data[i]
       IN  IF ~IDAssignableTo(v.et)
           THEN [err |-> <<ISE("Invalid map value type for to-many relation, must be *IDObject")>>,
                 v |-> v, panic |-> FALSE]
           ELSE IF v.key = "string"
           THEN IF v.nil THEN [err |-> <<>>, v |-> v, panic |-> TRUE]
                ELSE setManyFrom(name, [v EXCEPT !.m = MapSet(v.m, data.id, StoredID(v.et, data))],
                                 rel, i + 1)
           ELSE LET id == Atoi(data.id)
                IN  IF ~id.ok
                    THEN [err |-> <<RelationshipError("Invalid resource ID", toLowerFirstRune(name))>>,
                          v |-> v, panic |-> FALSE]
                    ELSE IF v.nil THEN [err |-> <<>>, v |-> v, panic |-> TRUE]
                    ELSE setManyFrom(name, [v EXCEPT !.m = MapSet(v.m, id.n, StoredID(v.et, data))],
                                     rel, i + 1)

\* a setModelRelationshipMany that would support maps keyed by string only
setModelRelationshipManyString(name, v, rel) ==
  IF v.k # "map"
  THEN [err |-> <<ISE("Invalid field type for to-many relation, must be map")>>,
        v |-> v, panic |-> FALSE]
  ELSE IF v.key = "string" THEN setManyFrom(name, v, rel, 1)
  ELSE [err |-> <<ISE("Invalid map key type for to-many relation, must be string or int")>>,
        v |-> v, panic |-> FALSE]

\* setModelRelationshipMany sets the given field (v) of the model to the given
\* to-many relationship value
setModelRelationshipMany(name, v, rel) ==
  IF v.k # "map"
  THEN [err |-> <<ISE("Invalid field type for to-many relation, must be map")>>,
        v |-> v, panic |-> FALSE]
  ELSE IF v.key \in {"string", "int"} THEN setManyFrom(name, v, rel, 1)
  ELSE [err |-> <<ISE("Invalid map key type for to-many relation, must be string or int")>>,
        v |-> v, panic |-> FALSE]

\* setModelRelationship sets the given field (v) of the model to the given
\* relationship value
setModelRelationship(name, many, rel, v, addr) ==
  IF many THEN setModelRelationshipMany(name, v, rel)
  ELSE setModelRelationshipOne(v, rel, addr)

-----------------------------------------------------------------------------
(* Model walker.                                                           *)
(* A Validator v is [action, ord]: the jsh action and the order in which   *)
(* the range loops of this call visit map keys.  v.object.Relationships is *)
(* threaded through the walk as rels, the walked value as val (the model   *)
(* is updated in place by the relationship binder).  panic: a runtime      *)
(* panic aborted the call.  log records, for the properties, each          *)
(* validateModelField / validateModelRelationship call and each return of  *)
(* validateStruct.                                                         *)

Result(fields, errors, rels, val, panic, log) ==
  [fields |-> fields, errors |-> errors, rels |-> rels, val |-> val,
   panic |-> panic, log |-> log]

\* the key kind and the element type of a map value ("" for another kind)
KeyKind(v) == IF v.k = "map" THEN v.key ELSE ""
ElemType(v) == IF v.k = "map" THEN v.et ELSE ""

LogField(path, f, z, opts) ==
  [op |-> "field", path |-> path, name |-> f.name, zero |-> z = "zero",
   tagged |-> ~opts.nil, required |-> ~opts.nil /\ opts.required,
   kind |-> f.v.k, key |-> KeyKind(f.v)]

LogRel(path, p, f, many, rel, opts) ==
  [op |-> "rel", path |-> path, name |-> p, zero |-> rel.nil,
   tagged |-> ~opts.nil, required |-> ~opts.nil /\ opts.required,
   many |-> many, data |-> rel.data, type |-> f.v.t, nilmap |-> f.v.k = "map" /\ f.v.nil,
   kind |-> f.v.k, key |-> KeyKind(f.v), et |-> ElemType(f.v)]

LogStruct(path, fields, errors) ==
  [op |-> "struct", path |-> path, fields |-> fields, errors |-> errors]

\* path + fieldSep + p, or p at the top level
JoinPath(path, p) == IF path # <<>> THEN path \o fieldSep \o p ELSE p

\* a validateStruct that would return the matched fields along with errors
structReturnBoth(fields, errors) == [fields |-> fields, errors |-> errors]

\* what validateStruct returns: errors only, or the matched fields only
structReturn(fields, errors) ==
  IF errors # <<>> THEN [fields |-> <<>>, errors |-> errors]
  ELSE [fields |-> fields, errors |-> <<>>]

\* the errors for the attributes that no field consumed
nonExistentAttributes(path, attrs, ord) ==
  LET names == RangeOrder(DOMAIN attrs, ord)
  IN  [i \in DOMAIN names |->
         InputError("Attribute does not exist", JoinPath(path, names[i]))]

\* the errors for the relationships left in v.object.Relationships
nonExistentRelationships(path, rels, ord) ==
  LET names == RangeOrder(DOMAIN rels, ord)
  IN  [i \in DOMAIN names |->
         RelationshipError("Relationship does not exist", JoinPath(path, names[i]))]

\* a merge that would put the errors of the nested value before the errors
\* of the fields declared before it
mergeNestedFirst(fields, errors, result, errlist) ==
  IF errlist # <<>> THEN [fields |-> fields, errors |-> errlist \o errors]
  ELSE [fields |-> fields \o result, errors |-> errors]

\* how a field's loop iteration merges the result of nestedResult
mergeNested(fields, errors, result, errlist) ==
  IF errlist # <<>> THEN [fields |-> fields, errors |-> errors \o errlist]
  ELSE [fields |-> fields \o result, errors |-> errors]

\* an element path that would count the elements from one
indexPathFromOne(path, i) == path \o fieldSep \o Itoa(i + 1)

\* the path of the i-th element of a slice or array, of the entry key of a map
indexPath(path, i) == path \o fieldSep \o Itoa(i)
keyPath(path, key) == path \o fieldSep \o key

\* a path for a relationship field that would include the path of its struct
relationshipPathNested(path, f) == JoinPath(path, toLowerFirstRune(f.name))

\* the path recorded for a relationship field
relationshipPath(path, f) == toLowerFirstRune(f.name)

RECURSIVE validateStruct(_, _, _, _, _, _, _)
RECURSIVE structLoop(_, _, _, _, _, _)
RECURSIVE nestedResult(_, _, _, _, _, _, _)
RECURSIVE mapLoop(_, _, _, _, _, _, _)
RECURSIVE sliceLoop(_, _, _, _, _, _, _)

\* a field that would leave the relationship it matched in the set
keepRelationship(rels, name) == rels

\* the field removes the relationship it matched:
\* delete(v.object.Relationships, name)
deleteRelationship(rels, name) == MapDelete(rels, name)

\* the relationship branch of one iteration of the field loop
relationshipField(v, path, i, addr, many, tags, acc) ==
  LET f       == acc.val.f[i]
      p       == relationshipPath(path, f)
      matches == { n \in DOMAIN acc.rels : EqualFold(n, f.name) }
      name    == Head(RangeOrder(matches, v.ord))
      rel     == IF matches = {} THEN NilRelationship ELSE acc.rels[name]
      rels    == IF matches = {} THEN acc.rels ELSE deleteRelationship(acc.rels, name)
      opts    == tagLookup(tags, v.action)
      chk     == validateModelRelationship(p, many, rel, opts)
      log     == Append(acc.log, LogRel(path, p, f, many, rel, opts))
      set     == setModelRelationship(p, many, rel, f.v, addr)
  IN  IF chk.err # <<>>
      THEN [acc EXCEPT !.rels = rels, !.log = log, !.errors = @ \o chk.err]
      ELSE IF ~chk.hasValue THEN [acc EXCEPT !.rels = rels, !.log = log]
      ELSE IF set.panic THEN [acc EXCEPT !.rels = rels, !.log = log, !.panic = TRUE]
      ELSE IF set.err # <<>>
      THEN [acc EXCEPT !.rels = rels, !.log = log, !.val.f[i].v = set.v,
                       !.errors = @ \o set.err]
      ELSE [acc EXCEPT !.rels = rels, !.log = log, !.val.f[i].v = set.v,
                       !.fields = Append(@, p)]

\* a field that would leave the raw key it matched among the attributes
keepAttribute(attrs, name) == attrs

\* a field that would remove every raw key equal to the matched one ignoring case
deleteFolded(attrs, name) ==
  [x \in { y \in DOMAIN attrs : ~EqualFold(y, name) } |-> attrs[x]]

\* the field removes the raw key it matched: delete(attrs, name)
deleteAttribute(attrs, name) == MapDelete(attrs, name)

\* a walker that would not skip the fields that json.Unmarshal ignores
neverIgnored(key) == FALSE

\* the fields ignored by json.Unmarshal are ignored: p == "-"
ignoredByJSON(key) == key = tagIgnore

\* the end of the attribute branch: the nested result is merged
attributeNested(acc, i, nested) ==
  LET merged == mergeNested(acc.fields, acc.errors, nested.fields, nested.errors)
  IN  [acc EXCEPT !.log = nested.log, !.rels = nested.rels,
                  !.val.f[i].v = nested.val, !.panic = nested.panic,
                  !.fields = merged.fields, !.errors = merged.errors]

\* the attribute branch of one iteration of the field loop
attributeField(v, path, i, addr, tags, acc) ==
  LET f       == acc.val.f[i]
      key     == decodeJSONTag(f)
      matches == { n \in DOMAIN acc.attrs : EqualFold(n, key) }
      name    == Head(RangeOrder(matches, v.ord))
      jValue  == IF matches = {} THEN JAbsent ELSE acc.attrs[name]
      attrs   == IF matches = {} THEN acc.attrs ELSE deleteAttribute(acc.attrs, name)
      p       == JoinPath(path, key)
      opts    == tagLookup(tags, v.action)
      chk     == validateModelField(p, f.v, opts)
      log     == Append(acc.log, LogField(p, f, isZero(f.v, FALSE), opts))
  IN  IF ignoredByJSON(key) THEN acc
      ELSE IF chk.panic THEN [acc EXCEPT !.attrs = attrs, !.panic = TRUE]
      ELSE IF chk.err # <<>>
      THEN [acc EXCEPT !.attrs = attrs, !.log = log, !.errors = @ \o chk.err]
      ELSE IF ~chk.hasValue THEN [acc EXCEPT !.attrs = attrs, !.log = log]
      ELSE attributeNested([acc EXCEPT !.attrs = attrs], i,
                           nestedResult(v, p, f.v, jValue, addr, acc.rels, log))

\* the end of validateStruct, after the field loop: the attributes and the
\* relationships that are left are reported
structEnd(v, path, acc) ==
  LET errs == acc.errors \o nonExistentAttributes(path, acc.attrs, v.ord)
                         \o nonExistentRelationships(path, acc.rels, v.ord)
      ret  == structReturn(acc.fields, errs)
  IN  IF acc.panic THEN Result(<<>>, <<>>, acc.rels, acc.val, TRUE, acc.log)
      ELSE Result(ret.fields, ret.errors, acc.rels, acc.val, FALSE,
                  Append(acc.log, LogStruct(path, ret.fields, ret.errors)))

\* the loop of validateStruct over the fields i, i+1, ... of the struct
structLoop(v, path, i, addr, acc, n) ==
  IF acc.panic \/ i > n THEN acc
  ELSE LET f    == acc.val.f[i]
           tags == decodeFieldTags(f.jsh)
           one  == tagToOne \in DOMAIN tags
           many == tagToMany \in DOMAIN tags
           next == IF f.pkg THEN acc
                   ELSE IF one \/ many
                   THEN relationshipField(v, path, i, addr, many, tags, acc)
                   ELSE attributeField(v, path, i, addr, tags, acc)
       IN  structLoop(v, path, i + 1, addr, next, n)

\* validateStruct validates all fields of the given struct according to JSH rules
validateStruct(v, path, rv, j, addr, rels, log) ==
  LET dec == decodeKeys(j)
  IN  IF dec.err # <<>>
      THEN Result(<<>>, dec.err, rels, rv, FALSE,
                  Append(log, LogStruct(path, <<>>, dec.err)))
      ELSE structEnd(v, path,
             structLoop(v, path, 1, addr,
               [fields |-> <<>>, errors |-> <<>>, attrs |-> dec.attrs,
                rels |-> rels, val |-> rv, panic |-> FALSE, log |-> log],
               Len(rv.f)))

RECURSIVE mapEntry(_, _, _, _, _, _, _, _)
RECURSIVE sliceElem(_, _, _, _, _, _, _, _)

\* one iteration of the map loop, given the result r of the entry: errors end
\* the loop and are all that is returned
mapEntry(v, path, sv, i, jsonValues, addr, acc, r) ==
  LET val == [acc.val EXCEPT !.m[sv[i]] = r.val]
  IN  IF r.panic THEN Result(<<>>, <<>>, r.rels, val, TRUE, r.log)
      ELSE IF r.errors # <<>> THEN Result(<<>>, r.errors, r.rels, val, FALSE, r.log)
      ELSE mapLoop(v, path, sv, i + 1, jsonValues, addr,
                   Result(acc.fields \o r.fields, <<>>, r.rels, val, FALSE, r.log))

\* one iteration of the slice loop, given the result r of the element
sliceElem(v, path, i, jArray, addr, acc, n, r) ==
  LET val == [acc.val EXCEPT !.s[i] = r.val]
  IN  IF r.panic THEN Result(<<>>, <<>>, r.rels, val, TRUE, r.log)
      ELSE IF r.errors # <<>> THEN Result(<<>>, r.errors, r.rels, val, FALSE, r.log)
      ELSE sliceLoop(v, path, i + 1, jArray, addr,
                     Result(acc.fields \o r.fields, <<>>, r.rels, val, FALSE, r.log), n)

\* the loop of nestedResult over the sorted keys sv[i], sv[i+1], ... of a map;
\* acc.fields starts as <<path>>; the first entry with errors ends the loop
mapLoop(v, path, sv, i, jsonValues, addr, acc) ==
  IF i > Len(sv) THEN acc
  ELSE LET key == sv[i]
           jv  == IF key \in DOMAIN jsonValues THEN jsonValues[key] ELSE JAbsent
       IN  mapEntry(v, path, sv, i, jsonValues, addr, acc,
                    nestedResult(v, keyPath(path, key), acc.val.m[key], jv, FALSE,
                                 acc.rels, acc.log))

\* the loop of nestedResult over the elements i, i+1, ... of a slice or array
\* (i counts from 1; the Go index is i - 1); jArray[i] panics past its end
sliceLoop(v, path, i, jArray, addr, acc, n) ==
  IF i > n THEN acc
  ELSE IF i > Len(jArray) THEN Result(<<>>, <<>>, acc.rels, acc.val, TRUE, acc.log)
  ELSE sliceElem(v, path, i, jArray, addr, acc, n,
                 nestedResult(v, indexPath(path, i - 1), acc.val.s[i], jArray[i],
                              addr, acc.rels, acc.log))

\* the result for a pointer or an interface is the result for its element
elemResult(fv, r) == [r EXCEPT !.val = [fv EXCEPT !.e = r.val]]

\* a result for a struct that would put its own path after the paths matched
structResultAfter(path, r) ==
  IF r.panic \/ r.errors # <<>> THEN r ELSE [r EXCEPT !.fields = r.fields \o <<path>>]

\* the result for a struct: its own path, then the paths validateStruct matched
structResult(path, r) ==
  IF r.panic \/ r.errors # <<>> THEN r ELSE [r EXCEPT !.fields = <<path>> \o r.fields]

\* nestedResult recurses until the field type is not a map, slice, array,
\* interface, pointer or struct
nestedResult(v, path, fv, jValue, addr, rels, log) ==
  LET start == Result(<<path>>, <<>>, rels, fv, FALSE, log)
  IN  IF fv.k = "map"
      THEN IF fv.key # "string"
           THEN Result(<<>>, <<ISE("Type is not supported")>>, rels, fv, FALSE, log)
           ELSE LET dec == decodeKeys(jValue)
                IN  IF dec.err # <<>> THEN Result(<<>>, dec.err, rels, fv, FALSE, log)
                    ELSE mapLoop(v, path, SortKeys(DOMAIN fv.m), 1, dec.attrs, addr, start)
      ELSE IF fv.k = "slice" /\ fv.t = "json.RawMessage" THEN start
      ELSE IF fv.k \in {"slice", "array"}
      THEN LET dec == decodeSlice(jValue)
           IN  IF dec.err # <<>> THEN Result(<<>>, dec.err, rels, fv, FALSE, log)
               ELSE sliceLoop(v, path, 1, dec.attrs, fv.k = "slice" \/ addr, start, Len(fv.s))
      ELSE IF fv.k \in {"interface", "ptr"}
      THEN IF fv.nil THEN start
           ELSE elemResult(fv, nestedResult(v, path, fv.e, jValue, fv.k = "ptr", rels, log))
      ELSE IF fv.k = "struct"
      THEN structResult(path, validateStruct(v, path, fv, jValue, addr, rels, log))
      ELSE start

-----------------------------------------------------------------------------
(* Validator.Validate *)

\* Validate validates that the given struct has no missing/forbidden fields
\* and relationships for the jsh action.  model is the interface{} argument:
\* VInvalid for a nil interface.
Validate(v, model, attributes, relationships) ==
  IF model.k # "ptr" \/ model.nil
  THEN Result(<<>>, <<ISE("The argument must be a non-nil pointer")>>,
              relationships, model, FALSE, <<>>)
  ELSE IF model.e.k # "struct"
  THEN Result(<<>>, <<ISE("The argument must be a pointer to a struct")>>,
              relationships, model, FALSE, <<>>)
  ELSE elemResult(model,
         validateStruct(v, <<>>, model.e, attributes, TRUE, relationships, <<>>))

-----------------------------------------------------------------------------
(* json.Unmarshal(o.Attributes, target), as Object.Unmarshal uses it: the  *)
(* decoding of encoding/json for the kinds of the model (no embedded       *)
(* fields, no Unmarshaler types).  A type error does not stop the          *)
(* decoding; the call then returns the error.                              *)

\* the zero value of the type of v
RECURSIVE ZeroOf(_)
ZeroOf(v) ==
  IF v.k = "string" THEN [v EXCEPT !.str = <<>>]
  ELSE IF v.k \in {"int", "float64"} THEN [v EXCEPT !.n = 0]
  ELSE IF v.k = "ptr" THEN [v EXCEPT !.nil = TRUE, !.e = IF v.nil THEN @ ELSE ZeroOf(@)]
  ELSE IF v.k = "interface" THEN VNilIface
  ELSE IF v.k = "slice" THEN [v EXCEPT !.nil = TRUE, !.s = <<>>]
  ELSE IF v.k = "map" THEN [v EXCEPT !.nil = TRUE, !.m = <<>>]
  ELSE IF v.k = "array" THEN [v EXCEPT !.s = [i \in DOMAIN v.s |-> ZeroOf(v.s[i])]]
  ELSE IF v.k = "struct"
  THEN [v EXCEPT !.f = [i \in DOMAIN v.f |-> [v.f[i] EXCEPT !.v = ZeroOf(@)]]]
  ELSE v

\* the value stored in an empty interface for a JSON message
RECURSIVE GenericValue(_)
GenericValue(j) ==
  IF j.k = "string" THEN VStr(j.str)
  ELSE IF j.k = "number" THEN VFloat(j.n)
  ELSE IF j.k = "array"
  THEN VSlice("[]interface{}", VNilIface,
              [i \in DOMAIN j.arr |-> IF j.arr[i].k = "null" THEN VNilIface
                                      ELSE VIface(GenericValue(j.arr[i]))])
  ELSE VMap("map[string]interface{}", "string", "interface{}", VNilIface,
            [x \in DOMAIN j.m |-> IF j.m[x].k = "null" THEN VNilIface
                                  ELSE VIface(GenericValue(j.m[x]))])

\* the name under which encoding/json knows a field: the json tag name, or
\* the field name when the tag has none
jsonFieldName(f) ==
  LET name == Split(f.json, tagSep)[1]
  IN  IF name = <<>> THEN f.name ELSE name

\* the index of the field a JSON key is decoded into (0: none): an exact
\* match, else the first field matching under case folding
jsonFieldIndex(f, key) ==
  LET cand  == { i \in DOMAIN f : ~f[i].pkg /\ Split(f[i].json, tagSep)[1] # tagIgnore }
      exact == { i \in cand : jsonFieldName(f[i]) = key }
      fold  == { i \in cand : EqualFold(jsonFieldName(f[i]), key) }
      min(S) == CHOOSE i \in S : \A k \in S : i <= k
  IN  IF exact # {} THEN min(exact) ELSE IF fold # {} THEN min(fold) ELSE 0

\* the field i of the struct, the entry key of the map, the elements of the
\* slice or array, the element of the pointer or interface are set to what
\* was decoded
jsonSetField(acc, i, r) == [v |-> [acc.v EXCEPT !.f[i].v = r.v], err |-> acc.err \/ r.err]
jsonSetEntry(acc, key, r) ==
  [v |-> [acc.v EXCEPT !.m = MapSet(@, key, r.v)], err |-> acc.err \/ r.err]
jsonSetSlice(v, r) ==
  [v |-> [v EXCEPT !.nil = FALSE, !.s = [i \in DOMAIN r |-> r[i].v]],
   err |-> \E i \in DOMAIN r : r[i].err]
jsonSetArray(v, r) ==
  [v |-> [v EXCEPT !.s = [i \in DOMAIN r |-> r[i].v]], err |-> \E i \in DOMAIN r : r[i].err]
jsonSetPtr(v, r) == [v |-> VPtr(v.t, r.v), err |-> r.err]
jsonSetIface(r) == [v |-> VIface(r.v), err |-> r.err]
jsonSetTarget(target, r) == [v |-> [target EXCEPT !.e = r.v], err |-> r.err]

RECURSIVE jsonDecode(_, _)
RECURSIVE jsonDecodeObject(_, _, _)
RECURSIVE jsonDecodeMap(_, _, _)

\* decoding the members keys[1..] of an object into the struct v
jsonDecodeObject(j, keys, acc) ==
  IF keys = <<>> THEN acc
  ELSE LET i == jsonFieldIndex(acc.v.f, Head(keys))
       IN  IF i = 0 THEN jsonDecodeObject(j, Tail(keys), acc)
           ELSE jsonDecodeObject(j, Tail(keys),
                  jsonSetField(acc, i, jsonDecode(j.m[Head(keys)], acc.v.f[i].v)))

\* decoding the members keys[1..] of an object into the map v
jsonDecodeMap(j, keys, acc) ==
  IF keys = <<>> THEN acc
  ELSE LET key == Head(keys)
           n   == Atoi(key)
       IN  IF acc.v.key # "string" /\ ~n.ok
           THEN jsonDecodeMap(j, Tail(keys), [acc EXCEPT !.err = TRUE])
           ELSE jsonDecodeMap(j, Tail(keys),
                  jsonSetEntry(acc, IF acc.v.key = "string" THEN key ELSE n.n,
                               jsonDecode(j.m[key], acc.v.z)))

\* decoding the message j into the value v: the new value, and whether a
\* type error occurred
jsonDecode(j, v) ==
  IF j.k = "null"
  THEN [v |-> IF v.k \in {"ptr", "interface", "map", "slice"} THEN ZeroOf(v) ELSE v,
        err |-> FALSE]
  ELSE IF v.k = "ptr"
  THEN jsonSetPtr(v, jsonDecode(j, v.e))
  ELSE IF v.k = "interface"
  THEN IF ~v.nil /\ v.e.k = "ptr" /\ ~v.e.nil
       THEN jsonSetIface(jsonDecode(j, v.e))
       ELSE [v |-> VIface(GenericValue(j)), err |-> FALSE]
  ELSE IF j.k = "object" /\ v.k = "struct"
  THEN jsonDecodeObject(j, SortKeys(DOMAIN j.m), [v |-> v, err |-> FALSE])
  ELSE IF j.k = "object" /\ v.k = "map" /\ v.key \in {"string", "int"}
  THEN jsonDecodeMap(j, SortKeys(DOMAIN j.m),
                     [v |-> [v EXCEPT !.nil = FALSE], err |-> FALSE])
  ELSE IF j.k = "array" /\ v.k = "slice"
  THEN jsonSetSlice(v, [i \in DOMAIN j.arr |->
                          jsonDecode(j.arr[i], IF i <= Len(v.s) THEN v.s[i] ELSE v.z)])
  ELSE IF j.k = "array" /\ v.k = "array"
  THEN jsonSetArray(v, [i \in DOMAIN v.s |->
                          IF i <= Len(j.arr) THEN jsonDecode(j.arr[i], v.s[i])
                          ELSE [v |-> ZeroOf(v.s[i]), err |-> FALSE]])
  ELSE IF j.k = "string" /\ v.k = "string" THEN [v |-> [v EXCEPT !.str = j.str], err |-> FALSE]
  ELSE IF j.k = "number" /\ v.k = "int" THEN [v |-> [v EXCEPT !.n = j.n], err |-> FALSE]
  ELSE [v |-> v, err |-> TRUE]

\* json.Unmarshal: an InvalidUnmarshalError unless target is a non-nil pointer
jsonUnmarshal(j, target) ==
  IF target.k # "ptr" \/ target.nil THEN [v |-> target, err |-> TRUE]
  ELSE jsonSetTarget(target, jsonDecode(j, target.e))

-----------------------------------------------------------------------------
(* Object: Unmarshal, process, ProcessCreate, ProcessUpdate *)

\* Unmarshal puts an Object's Attributes into target.  sameType: the given
\* resourceType equals o.Type.  validateInput (govalidator) finds nothing in
\* models without `valid` tags.
unmarshalResult(r) ==
  IF r.err
  THEN [errors |-> <<BadRequestError("For type unable to unmarshal", "json error")>>,
        v |-> r.v]
  ELSE [errors |-> <<>>, v |-> r.v]

Unmarshal(sameType, attributes, target) ==
  IF ~sameType THEN [errors |-> <<ConflictError("", <<>>)>>, v |-> target]
  ELSE IF attributes.k = "absent" THEN [errors |-> <<>>, v |-> target]
  ELSE unmarshalResult(jsonUnmarshal(attributes, target))

\* process validates that the object's attributes are valid for the given action
validateUnmarshaled(v, u, attributes, relationships) ==
  IF u.errors # <<>>
  THEN Result(<<>>, u.errors, relationships, u.v, FALSE, <<>>)
  ELSE Validate(v, u.v, attributes, relationships)

process(v, sameType, model, attributes, relationships) ==
  validateUnmarshaled(v, Unmarshal(sameType, attributes, model), attributes, relationships)

\* ProcessCreate: process with the create tag
ProcessCreate(ord, sameType, model, attributes, relationships) ==
  process([action |-> tagCreate, ord |-> ord], sameType, model, attributes, relationships)

\* a ProcessUpdate that would not ask for at least one updated field
updateResultAny(r) == r

\* ProcessUpdate behaves just like ProcessCreate but uses the update tag, and
\* requires at least one field to be updated
updateResult(r) ==
  IF r.panic THEN r
  ELSE IF r.errors # <<>> THEN [r EXCEPT !.fields = <<>>]
  ELSE IF Len(r.fields) = 0
  THEN [r EXCEPT !.errors = <<BadRequestError("Invalid patch document",
                                              "Missing description of changes")>>]
  ELSE r

ProcessUpdate(ord, sameType, model, attributes, relationships) ==
  updateResult(process([action |-> tagUpdate, ord |-> ord], sameType, model,
                       attributes, relationships))

-----------------------------------------------------------------------------
(* Object.Validate and the Document *)

\* SpecificationError returns a 406 Not Acceptable
SpecificationError(detail) ==
  MkError(406, "JSON API Specification Error", detail, <<>>, "")

\* An Object, as Object.Validate and Document.AddObject use it
MkObject(type, id, status) == [Type |-> type, ID |-> id, Status |-> status]

\* Object.Validate(r, response) for r.Method = method: the error returned
\* (<<>> for nil) and the object as the call leaves it
ObjectValidate(o, method, response) ==
  LET failed(detail) == [err |-> <<SpecificationError(detail)>>, o |-> o]
      done(status)   == [err |-> <<>>, o |-> [o EXCEPT !.Status = status]]
  IN  IF o.ID = <<>> /\ ~response /\ method # "POST"
      THEN failed("ID must be set for Object response")
      ELSE IF o.Type = <<>> THEN failed("Type must be set for Object response")
      ELSE IF method = "POST"
      THEN IF o.Status # 0
           THEN IF o.Status \notin {201, 202, 204}
                THEN failed("POST Status must be one of 201, 202, or 204.")
                ELSE done(o.Status)
           ELSE done(201)
      ELSE IF method = "PATCH" /\ o.Status # 0
      THEN IF o.Status \notin {200, 202, 204}
           THEN failed("PATCH Status must be one of 200, 202, or 204.")
           ELSE done(o.Status)
      ELSE IF method \in {"PATCH", "HEAD", "GET"} THEN done(200)
      ELSE failed("The JSON Specification does not accept requests of this method.")

\* DocumentMode
ObjectMode == 0
ListMode == 1
ErrorMode == 2

\* what Document.Data holds: pointers to the object, or nil
TheObject == "object"
NilObject == "nil"

\* New instantiates a new JSON Document object
New == [Data |-> <<>>, Errors |-> <<>>, Status |-> 0, Mode |-> ObjectMode]

\* HasData will return true if the JSON document's Data field is set
HasData(d) == Len(d.Data) > 0

\* HasErrors will return true if the Errors attribute is not nil
HasErrors(d) == Len(d.Errors) > 0

\* an AddError that would not look at the data of the document
AddErrorAnyway(d, newErr) ==
  IF newErr = <<>> THEN [err |-> <<>>, d |-> d, panic |-> TRUE]
  ELSE IF newErr[1].status = 0
  THEN [err |-> <<ISE("No HTTP Status code provided for error, cannot add to document")>>,
        d |-> d, panic |-> FALSE]
  ELSE [err |-> <<>>, panic |-> FALSE,
        d |-> [d EXCEPT !.Status = IF @ = 0 THEN newErr[1].status ELSE @,
                        !.Errors = Append(@, newErr[1]),
                        !.Mode = ErrorMode]]

\* AddObject adds another object to the JSON Document: ref is the pointer
\* given, o the object it points to; a nil pointer is dereferenced when the
\* status of the document is not set
AddObject(d, ref, o) ==
  IF d.Mode = ErrorMode
  THEN [err |-> <<ISE("Invalid attempt to add data to an error document")>>,
        d |-> d, panic |-> FALSE]
  ELSE IF d.Mode = ObjectMode /\ Len(d.Data) = 1
  THEN [err |-> <<ISE("Invalid attempt to add multiple objects to a single object document")>>,
        d |-> d, panic |-> FALSE]
  ELSE IF d.Status = 0 /\ ref = NilObject THEN [err |-> <<>>, d |-> d, panic |-> TRUE]
  ELSE [err |-> <<>>, panic |-> FALSE,
        d |-> [d EXCEPT !.Status = IF @ = 0 THEN o.Status ELSE @,
                        !.Data = Append(@, ref)]]

\* AddError adds an error to the Document and sets the document Mode to
\* ErrorMode: newErr is <<>> for a nil pointer, which is dereferenced
AddError(d, newErr) ==
  IF HasData(d)
  THEN [err |-> <<ISE("Invalid attempt to add an error to a document containing data")>>,
        d |-> d, panic |-> FALSE]
  ELSE IF newErr = <<>> THEN [err |-> <<>>, d |-> d, panic |-> TRUE]
  ELSE IF newErr[1].status = 0
  THEN [err |-> <<ISE("No HTTP Status code provided for error, cannot add to document")>>,
        d |-> d, panic |-> FALSE]
  ELSE [err |-> <<>>, panic |-> FALSE,
        d |-> [d EXCEPT !.Status = IF @ = 0 THEN newErr[1].status ELSE @,
                        !.Errors = Append(@, newErr[1]),
                        !.Mode = ErrorMode]]

-----------------------------------------------------------------------------
(* The models, attributes and relationship sets that are enumerated: the   *)
(* shapes of the package's tests (flat, nested struct, slice, map,         *)
(* pointer, interface, every value kind, relationships, nested             *)
(* relationships, ignored and unexported fields, invalid arguments), with  *)
(* their tags and values varied.                                           *)

sfoo == <<"f","o","o">>
sFoo == <<"F","o","o">>
sFOO == <<"F","O","O">>
sbar == <<"b","a","r">>
sBar == <<"B","a","r">>
sbars == <<"b","a","r","s">>
sBars == <<"B","a","r","s">>
sfoos == <<"f","o","o","s">>
sFoos == <<"F","o","o","s">>
sbaz == <<"b","a","z">>
sBaz == <<"B","a","z">>
sinvalid == <<"i","n","v","a","l","i","d">>
sother == <<"o","t","h","e","r">>
skey == <<"k","e","y">>
sa == <<"a">>
sName == <<"N","a","m","e">>
sname == <<"n","a","m","e">>
spriv == <<"p","r","i","v">>
stests == <<"t","e","s","t","s">>
sID123 == <<"I","D","1","2","3">>
sNum1 == <<"1">>
sNum2 == <<"2">>

tNone == <<>>
tCreate == tagCreate
tCreateReq == tagCreate \o <<optionSep>> \o optionRequired
tUpdate == tagUpdate
tInvalid == sinvalid
tOne(perm) == IF perm = <<>> THEN tagToOne ELSE tagToOne \o <<tagSep>> \o perm
tMany(perm) == IF perm = <<>> THEN tagToMany ELSE tagToMany \o <<tagSep>> \o perm

\* all sequences over S of length at most n
SeqsUpTo(S, n) == UNION { [1..k -> S] : k \in 0..n }

Input(m, a, r) == [model |-> m, attributes |-> a, relationships |-> r]

NoRels == <<>>
OneRel(name, data) == [n \in {name} |-> Relationship(data)]
idFoo == IDObject(stests, sID123)
idOne == IDObject(stests, sNum1)
idTwo == IDObject(stests, sNum2)

\* two string attributes
Elem(t1, t2, a, b) ==
  VStruct("Elem", << Field(sFoo, sfoo, t1, VStr(a)), Field(sBar, sbar, t2, VStr(b)) >>)
ElemValues(t1, t2) == { Elem(t1, t2, a, b) : a \in {<<>>, sbar}, b \in {<<>>, sfoo} }
ElemTags == { <<t1, t2>> : t1 \in {tNone, tCreate}, t2 \in {tCreate, tCreateReq} }
NestedTags == { <<tNone, tCreateReq>>, <<tCreate, tCreateReq>> }

jElem == JObj([x \in {sfoo, sbar} |-> IF x = sfoo THEN JStr(sbar) ELSE JStr(sfoo)])
jElemInvalid == JObj([x \in {sfoo, sinvalid} |-> JStr(sbar)])
jFoo(j) == JObj([x \in {sfoo} |-> j])

FlatInputs ==
  { Input(VPtr("*Elem", Elem(t1, t2, a, b)), j, r) :
      t1 \in {tNone, tCreate, tCreateReq, tUpdate}, t2 \in {tNone, tCreateReq},
      a \in {<<>>, sbar}, b \in {<<>>, sfoo},
      j \in { JAbsent, jElemInvalid,
              JObj([x \in {sfoo, sFOO} |-> JStr(x)]),
              JObj([x \in {sinvalid, sother} |-> JStr(sbar)]) },
      r \in { NoRels, [n \in {sother, sinvalid} |-> Relationship(<<idFoo>>)] } }

\* a nested struct, a pointer to it, an interface holding it
Nested(t0, v) == VPtr("*Nested", VStruct("Nested", << Field(sFoo, sfoo, t0, v) >>))

NestedInputs ==
  { Input(Nested(t0, e), jr[1], jr[2]) :
      t0 \in {tNone, tCreate, tCreateReq},
      e \in UNION { ElemValues(t[1], t[2]) : t \in ElemTags },
      jr \in { <<JAbsent, NoRels>>, <<jFoo(jElem), NoRels>>,
               <<jFoo(jElemInvalid), NoRels>>, <<JAbsent, OneRel(sother, <<idFoo>>)>> } }

IndirectInputs ==
  { Input(Nested(tCreate, p), j, NoRels) :
      p \in UNION { { VNilPtr("*Elem", Elem(t[1], t[2], <<>>, <<>>)), VNilIface }
                    \cup { VPtr("*Elem", e) : e \in ElemValues(t[1], t[2]) }
                    \cup { VIface(VPtr("*Elem", e)) : e \in ElemValues(t[1], t[2]) }
                    \cup { VIface(e) : e \in ElemValues(t[1], t[2]) } : t \in NestedTags },
      j \in { JAbsent, jFoo(jElem), jFoo(jElemInvalid) } }

\* a slice and an array of structs
SliceValues(t1, t2) ==
  { VNilSlice("[]Elem", Elem(t1, t2, <<>>, <<>>)) }
  \cup { VSlice("[]Elem", Elem(t1, t2, <<>>, <<>>), s) :
           s \in SeqsUpTo({ Elem(t1, t2, sbar, <<>>), Elem(t1, t2, sbar, sfoo) }, MaxLen) }
  \cup { VArray("[2]Elem", s) :
           s \in [1..2 -> { Elem(t1, t2, <<>>, <<>>), Elem(t1, t2, sbar, sfoo) }] }

\* raw arrays of k elements, the last one, or every one, with a key that the
\* element type does not have
jArrays ==
  UNION { { JArr([i \in 1..k |-> jElem]),
            JArr([i \in 1..k |-> IF i = k THEN jElemInvalid ELSE jElem]),
            JArr([i \in 1..k |-> jElemInvalid]) } : k \in 0..MaxLen }

SliceInputs ==
  { Input(Nested(tCreate, sv), j, NoRels) :
      sv \in UNION { SliceValues(t[1], t[2]) : t \in NestedTags },
      j \in { JAbsent, jFoo(JStr(sbar)) } \cup { jFoo(a) : a \in jArrays } }

\* a map of structs, and a map keyed by int
MapValues(t1, t2) ==
  { VNilMap("map[string]Elem", "string", "Elem", Elem(t1, t2, <<>>, <<>>)) }
  \cup UNION { { VMap("map[string]Elem", "string", "Elem", Elem(t1, t2, <<>>, <<>>), m) :
                   m \in [K -> { Elem(t1, t2, sbar, <<>>), Elem(t1, t2, sbar, sfoo) }] } :
               K \in SUBSET {sa, skey} }

jMap(K, j) == jFoo(JObj([x \in K |-> j]))

MapInputs ==
  { Input(Nested(tCreate, mv), j, NoRels) :
      mv \in UNION { MapValues(t[1], t[2]) : t \in NestedTags },
      j \in { JAbsent, jMap({skey}, jElem), jMap({sa, skey}, jElem),
              jMap({sa, skey}, jElemInvalid) } }

IntMapValues ==
  { VNilMap("map[int]int", "int", "int", VInt(0)),
    VMap("map[int]int", "int", "int", VInt(0), <<>>),
    VMap("map[int]int", "int", "int", VInt(0), [x \in {1} |-> VInt(2)]) }

IntMapInputs ==
  { Input(Nested(t0, mv), j, NoRels) :
      t0 \in {tNone, tCreate, tCreateReq, tUpdate}, mv \in IntMapValues,
      j \in { JAbsent, jMap({}, JNum(1)), jMap({sNum1}, JNum(2)), jMap({sfoo}, JNum(1)) } }

\* every value kind, zero or not (the "all type kinds" tests)
KindModel(t, foo, ptr, array, slice, map, iface, struct) ==
  VPtr("*Kinds", VStruct("Kinds", <<
    Field(sFoo, sfoo, tCreate, VStr(foo)),
    Field(<<"P","t","r">>, <<"p","t","r">>, t, ptr),
    Field(<<"A","r","r","a","y">>, <<"a","r","r","a","y">>, t, array),
    Field(<<"S","l","i","c","e">>, <<"s","l","i","c","e">>, t, slice),
    Field(<<"M","a","p">>, <<"m","a","p">>, t, map),
    Field(<<"I","n","t","e","r","f","a","c","e">>, <<"i","n","t","e","r","f","a","c","e">>, t, iface),
    Field(<<"S","t","r","u","c","t">>, <<"s","t","r","u","c","t">>, t, struct) >>))

KindStruct(n) == VStruct("struct{N int}", << Field(<<"N">>, <<"n">>, tNone, VInt(n)) >>)

\* the fields in nz are not zero
KindInputs ==
  { Input(KindModel(t, IF 1 \in nz THEN sbar ELSE <<>>,
                    IF 2 \in nz THEN VPtr("*string", VStr(sbar))
                    ELSE VNilPtr("*string", VStr(<<>>)),
                    VArray("[2]int", <<VInt(0), VInt(IF 3 \in nz THEN 1 ELSE 0)>>),
                    IF 4 \in nz THEN VSlice("[]int", VInt(0), <<VInt(0), VInt(1)>>)
                    ELSE VNilSlice("[]int", VInt(0)),
                    IF 5 \in nz
                    THEN VMap("map[string]int", "string", "int", VInt(0), [x \in {sa} |-> VInt(0)])
                    ELSE VNilMap("map[string]int", "string", "int", VInt(0)),
                    IF 6 \in nz THEN VIface(KindStruct(0)) ELSE VNilIface,
                    KindStruct(IF 7 \in nz THEN 1 ELSE 0)),
           j, NoRels) :
      t \in {tNone, tCreate},
      nz \in { {} } \cup { {k} : k \in 1..7 } \cup { 1..7 },
      j \in { JAbsent, jFoo(JStr(sbar)) } }

\* ignored, untagged and unexported fields; a nested struct with an
\* unexported field
OddModel(t, foo, name, priv) ==
  VPtr("*Odd", VStruct("Odd", <<
    Field(sFoo, tagIgnore, t, VStr(foo)),
    Field(sName, <<>>, t, VStr(name)),
    PrivateField(spriv, spriv, tCreate, VStr(priv)) >>))

HiddenModel(t, a, b) ==
  Nested(t, VStruct("Hidden", << PrivateField(sa, sa, tNone, VStr(a)),
                                 Field(sBar, sbar, tCreate, VStr(b)) >>))

OddInputs ==
  { Input(OddModel(t, foo, name, priv), j, NoRels) :
      t \in {tNone, tCreate, tCreateReq}, foo \in {<<>>, sbar}, name \in {<<>>, sbar},
      priv \in {<<>>, sbar},
      j \in { JAbsent, jFoo(JStr(sbar)), JObj([x \in {sName} |-> JStr(sbar)]),
              JObj([x \in {sname, spriv} |-> JStr(sbar)]) } }
  \cup { Input(HiddenModel(t, a, b), j, NoRels) :
           t \in {tNone, tCreate}, a \in {<<>>, sbar}, b \in {<<>>, sbar},
           j \in { JAbsent, jFoo(jElem) } }

\* a to-one relationship field of each type
OneModel(perm, v) == VPtr("*One", VStruct("One", << Field(sFoo, tagIgnore, tOne(perm), v) >>))

OneInputs ==
  { Input(OneModel(perm, v), j, r) :
      perm \in {tNone, tCreate, tCreateReq},
      v \in { VNilPtr("*IDObject", VInvalid), VStr(<<>>), VNilIface,
              VStruct("IDObject", <<>>) },
      j \in { JAbsent },
      r \in { NoRels, OneRel(sother, <<idFoo>>), OneRel(sFOO, <<idFoo>>),
              [n \in {sfoo, sFoo} |-> Relationship(<<IDObject(stests, n)>>)],
              [n \in {sfoo, sother} |-> Relationship(<<idFoo>>)] }
            \cup { OneRel(sfoo, d) : d \in SeqsUpTo({idFoo}, MaxLen) } }

\* a to-many relationship field of each type
ManyValues ==
  { VNilMap("map[string]*IDObject", "string", "*IDObject", VInvalid),
    VMap("map[string]*IDObject", "string", "*IDObject", VInvalid, <<>>),
    VNilMap("map[int]*IDObject", "int", "*IDObject", VInvalid),
    VMap("map[int]*IDObject", "int", "*IDObject", VInvalid, <<>>),
    VMap("map[string]string", "string", "string", VStr(<<>>), <<>>),
    VMap("map[int]string", "int", "string", VStr(<<>>), <<>>),
    VMap("map[bool]*IDObject", "bool", "*IDObject", VInvalid, <<>>),
    VNilPtr("*IDObject", VInvalid) }

\* lists of k resource identifiers with numeric ids, the last one, or every
\* one, with an id that is no number
idLists ==
  UNION { { [i \in 1..k |-> IDObject(stests, Itoa(i))],
            [i \in 1..k |-> IF i = k THEN idFoo ELSE IDObject(stests, Itoa(i))],
            [i \in 1..k |-> idFoo] } : k \in 0..MaxLen }

ManyModel(perm, v) == VPtr("*Many", VStruct("Many", << Field(sFoos, tagIgnore, tMany(perm), v) >>))

ManyInputs ==
  { Input(ManyModel(perm, v), JAbsent, r) :
      perm \in {tNone, tCreate, tCreateReq}, v \in ManyValues,
      r \in { NoRels } \cup { OneRel(sfoos, d) : d \in idLists } }

\* relationship fields inside a nested struct, and one declared after it
NestedRelModel(t0, foos) ==
  VPtr("*NestedRel", VStruct("NestedRel", <<
    Field(sBars, sbars, t0,
          VStruct("Bars", << Field(sFoo, tagIgnore, tOne(tCreate), VNilPtr("*IDObject", VInvalid)),
                             Field(sFoos, tagIgnore, tMany(tCreate), foos) >>)),
    Field(sBaz, tagIgnore, tOne(tCreate), VNilPtr("*IDObject", VInvalid)) >>))

NestedRelInputs ==
  { Input(NestedRelModel(t0, foos), j, [n \in K |-> Relationship(<<idFoo>>)]) :
      t0 \in {tNone, tCreate},
      foos \in { VNilMap("map[string]*IDObject", "string", "*IDObject", VInvalid),
                 VMap("map[string]*IDObject", "string", "*IDObject", VInvalid, <<>>) },
      j \in { JAbsent, JObj([x \in {sbars} |-> JObj(<<>>)]) },
      K \in SUBSET {sfoo, sfoos, sbaz, sother} }

\* raw attributes in which the key of a field is set to the zero value of the
\* field's type, next to other keys: a known one, one that differs from it
\* in case only, unknown ones
jZeroKey(j, K, other) == JObj([x \in {sfoo} \cup K |-> IF x = sfoo THEN j ELSE other])

ZeroKeyInputs ==
  { Input(VPtr("*Elem", Elem(t1, t2, a, b)), j, NoRels) :
      t1 \in {tNone, tCreate}, t2 \in {tCreate, tCreateReq},
      a \in {<<>>, sbar}, b \in {<<>>, sfoo},
      j \in { jZeroKey(JStr(<<>>), {sbar}, JStr(sfoo)),
              jZeroKey(JStr(<<>>), {sFOO}, JStr(sbar)),
              jZeroKey(JNull, {sinvalid, sother}, JStr(sbar)) } }
  \cup { Input(Nested(tCreate, e), jFoo(jZeroKey(JStr(<<>>), {sbar}, JStr(sfoo))), NoRels) :
           e \in ElemValues(tCreate, tCreateReq) }
  \cup { Input(Nested(tCreate, VSlice("[]Elem", Elem(tCreate, tCreateReq, <<>>, <<>>),
                                      << Elem(tCreate, tCreateReq, a, sfoo) >>)),
                 jFoo(JArr(<< jZeroKey(JStr(<<>>), {sbar}, JStr(sfoo)) >>)), NoRels) :
           a \in {<<>>, sbar} }

\* an attribute, then a nested struct, then a relationship: each may be in
\* error, next to an unknown raw key and an unknown relationship name
OrderModel(t1, a, e, perm) ==
  VPtr("*Order", VStruct("Order", <<
    Field(sFoo, sfoo, t1, VStr(a)),
    Field(sBars, sbars, tCreate, e),
    Field(sBaz, tagIgnore, tOne(perm), VNilPtr("*IDObject", VInvalid)) >>))

OrderInputs ==
  { Input(OrderModel(t1, a, e, perm), jr[1], jr[2]) :
      t1 \in {tNone, tCreateReq}, a \in {<<>>, sbar},
      e \in ElemValues(tNone, tCreateReq), perm \in {tCreate, tCreateReq},
      jr \in { <<JObj([x \in {sbars, sother} |-> IF x = sbars THEN jElemInvalid ELSE JStr(sbar)]), r>> :
                 r \in { NoRels, OneRel(sother, <<idFoo>>) } }
              \cup { <<JObj([x \in {sfoo, sFOO} |-> JStr(x)]),
                       [n \in {sbaz, sBaz} |-> Relationship(<<IDObject(stests, n)>>)]>> } }

\* jsh tags in every form: no segment, empty and unrecognised names, a
\* reserved character, options that are not "required", more than one
\* option, a name given twice
TagStrings ==
  LET sl == <<optionSep>>
      cm == <<tagSep>>
  IN  { <<>>, tInvalid, tCreate, tCreateReq, tCreate \o sl,
        tCreate \o sl \o sinvalid, tCreateReq \o sl \o sinvalid,
        tCreate \o sl \o sinvalid \o sl \o optionRequired,
        sl \o optionRequired, cm \o tCreate, tInvalid \o cm \o tUpdate,
        tCreate \o cm \o tCreateReq, tCreateReq \o cm \o tCreate,
        <<"c", "\"">>, <<"c", "\"">> \o cm \o tCreateReq, <<"_", "1">> \o cm \o tUpdate \o sl \o optionRequired }

TagInputs ==
  { Input(VPtr("*Tagged", VStruct("Tagged", << Field(sFoo, sfoo, t, VStr(a)) >>)),
          JAbsent, NoRels) :
      t \in TagStrings, a \in {<<>>, sbar} }

\* a to-one relationship field followed by a to-many one keyed by int
BothModel(foos) ==
  VPtr("*Both", VStruct("Both", <<
    Field(sFoo, tagIgnore, tOne(tCreate), VNilPtr("*IDObject", VInvalid)),
    Field(sFoos, tagIgnore, tMany(tCreate), foos) >>))

BothInputs ==
  { Input(BothModel(VMap("map[int]*IDObject", "int", "*IDObject", VInvalid, <<>>)), JAbsent,
          [n \in {sfoo, sfoos} |-> Relationship(IF n = sfoo THEN <<idFoo>> ELSE d)]) :
      d \in idLists }

\* arguments that are no pointer to a struct
BadModelInputs ==
  { Input(m, j, NoRels) :
      m \in { VInvalid, VStr(sinvalid), VNilPtr("*Elem", Elem(tCreate, tCreate, <<>>, <<>>)),
              VPtr("*string", VStr(<<>>)) },
      j \in { JAbsent, jFoo(JStr(sbar)), JStr(sbar) } }

Inputs ==
  FlatInputs \cup NestedInputs \cup IndirectInputs \cup SliceInputs \cup MapInputs
  \cup IntMapInputs \cup KindInputs \cup OddInputs \cup OneInputs \cup ManyInputs
  \cup NestedRelInputs \cup ZeroKeyInputs \cup OrderInputs \cup TagInputs \cup BothInputs
  \cup BadModelInputs

Actions == {tagCreate, tagUpdate}
Orders == 0..(MaxOrders - 1)

-----------------------------------------------------------------------------
(* The state machine: an Object (attributes, relationships) and a model,   *)
(* one call of Validator.Validate, Object.ProcessCreate or                 *)
(* Object.ProcessUpdate on them, and then possibly a second call of        *)
(* Validator.Validate for the same action.                                 *)

VARIABLES
  model,          \* the model argument (updated in place by the call)
  attributes,     \* Object.Attributes
  relationships,  \* Object.Relationships
  pc,             \* "ready", then "done"
  call,           \* the call made: its operation and its jsh action
  given,          \* the model and the relationships before the call
  arg,            \* the model as Validator.Validate received it
  fields,         \* the matched paths returned
  errors,         \* the error list returned
  panicked,       \* the call ended in a runtime panic
  log,            \* what the walker examined, in order
  second,         \* the second call: its arguments and what it returned
  object,         \* the Object that is validated and added to the Document
  document,       \* the Document
  last            \* the last call on the object or the document

vars == <<model, attributes, relationships, pc, call, given, arg, fields, errors,
          panicked, log, second, object, document, last>>

\* no call was made on the object or the document
NoCall ==
  [op |-> "none", method |-> "", response |-> FALSE, ref |-> NilObject, newErr |-> <<>>,
   err |-> <<>>, panicked |-> FALSE, object |-> MkObject(<<>>, <<>>, 0), document |-> New]

\* no second call was made
NoSecond ==
  [made |-> FALSE, ord |-> 0, model |-> VInvalid, attributes |-> JAbsent,
   relationships |-> <<>>, fields |-> <<>>, errors |-> <<>>, panicked |-> FALSE,
   val |-> VInvalid, rels |-> <<>>]

Init ==
  \E in \in Inputs :
    /\ model = in.model
    /\ attributes = in.attributes
    /\ relationships = in.relationships
    /\ pc = "ready"
    /\ call = [op |-> "none", action |-> <<>>, sameType |-> TRUE, validated |-> FALSE]
    /\ given = [model |-> in.model, relationships |-> in.relationships]
    /\ arg = VInvalid
    /\ fields = <<>>
    /\ errors = <<>>
    /\ panicked = FALSE
    /\ log = <<>>
    /\ second = NoSecond
    /\ object = MkObject(stests, <<>>, 0)
    /\ document = New
    /\ last = NoCall

Return(r) ==
  /\ model' = r.val
  /\ relationships' = r.rels
  /\ fields' = r.fields
  /\ errors' = r.errors
  /\ panicked' = r.panic
  /\ log' = r.log
  /\ pc' = "done"
  /\ UNCHANGED <<attributes, given, second, object, document, last>>

\* NewValidator(obj, action).Validate(model)
CallValidate(action, ord) ==
  /\ pc = "ready"
  /\ call' = [op |-> "Validate", action |-> action, sameType |-> TRUE, validated |-> TRUE]
  /\ arg' = model
  /\ Return(Validate([action |-> action, ord |-> ord], model, attributes, relationships))

\* the call made, and the model that process handed to Validate after
\* Object.Unmarshal returned u
Processing(op, action, sameType, u) ==
  /\ call' = [op |-> op, action |-> action, sameType |-> sameType,
              validated |-> u.errors = <<>>]
  /\ arg' = IF u.errors = <<>> THEN u.v ELSE VInvalid

\* obj.ProcessCreate(resourceType, model)
CallProcessCreate(sameType, ord) ==
  /\ pc = "ready"
  /\ Processing("ProcessCreate", tagCreate, sameType, Unmarshal(sameType, attributes, model))
  /\ Return(ProcessCreate(ord, sameType, model, attributes, relationships))

\* obj.ProcessUpdate(resourceType, model)
CallProcessUpdate(sameType, ord) ==
  /\ pc = "ready"
  /\ Processing("ProcessUpdate", tagUpdate, sameType, Unmarshal(sameType, attributes, model))
  /\ Return(ProcessUpdate(ord, sameType, model, attributes, relationships))

\* what the second call was given and what it returned
ReturnAgain(ord, m, j, rels, r) ==
  /\ second' = [made |-> TRUE, ord |-> ord, model |-> m, attributes |-> j,
                relationships |-> rels, fields |-> r.fields, errors |-> r.errors,
                panicked |-> r.panic, val |-> r.val, rels |-> r.rels]
  /\ pc' = "again"
  /\ UNCHANGED <<model, attributes, relationships, call, given, arg, fields, errors,
                 panicked, log, object, document, last>>

\* the message j is what the zero value of the type of v is decoded from:
\* null for every type, "" for a string, 0 for a number
ZeroJSON(v, j) ==
  \/ j.k = "null"
  \/ v.k = "string" /\ j.k = "string" /\ j.str = <<>>
  \/ v.k \in {"int", "float64"} /\ j.k = "number" /\ j.n = 0

\* The messages that are j without one key: the key of an attribute field of
\* the value v, at any depth, that is set to the zero value of the field's
\* type.
RECURSIVE Omissions(_, _)
Omissions(v, j) ==
  IF v.k \in {"ptr", "interface"}
  THEN IF v.nil THEN {} ELSE Omissions(v.e, j)
  ELSE IF v.k = "struct" /\ j.k = "object"
  THEN UNION { LET f == v.f[i]
               IN  IF f.pkg \/ tagToOne \in DOMAIN decodeFieldTags(f.jsh)
                      \/ tagToMany \in DOMAIN decodeFieldTags(f.jsh)
                      \/ decodeJSONTag(f) = tagIgnore
                   THEN {}
                   ELSE UNION { (IF ZeroJSON(f.v, j.m[x]) THEN { JObj(MapDelete(j.m, x)) } ELSE {})
                                \cup { JObj(MapSet(j.m, x, o)) : o \in Omissions(f.v, j.m[x]) } :
                                x \in { y \in DOMAIN j.m : EqualFold(y, decodeJSONTag(f)) } } :
               i \in DOMAIN v.f }
  ELSE IF v.k \in {"slice", "array"} /\ j.k = "array"
  THEN UNION { { JArr([j.arr EXCEPT ![i] = o]) : o \in Omissions(v.s[i], j.arr[i]) } :
               i \in DOMAIN j.arr \cap DOMAIN v.s }
  ELSE IF v.k = "map" /\ v.key = "string" /\ j.k = "object"
  THEN UNION { { JObj(MapSet(j.m, x, o)) : o \in Omissions(v.m[x], j.m[x]) } :
               x \in DOMAIN j.m \cap DOMAIN v.m }
  ELSE {}

\* NewValidator(obj, action).Validate(m) once more, for the action of the
\* first call, after a first call that reached the validator and returned.
\* m is the model as the first call left it or a copy of the model as it
\* was given to the first call; rels is the relationship set as the first
\* call left it in the object or the set supplied again; j is the raw
\* attributes of the object.
CallValidateAgain(ord, m, j, rels) ==
  /\ pc = "done" /\ ~panicked /\ call.validated
  /\ ReturnAgain(ord, m, j, rels,
                 Validate([action |-> call.action, ord |-> ord], m, j, rels))

\* the same call again, with the same raw attributes but for one key that
\* held a zero value
CallValidateOmitted(ord, j) ==
  /\ pc = "done" /\ ~panicked /\ call.op = "Validate"
  /\ ReturnAgain(ord, given.model, j, given.relationships,
                 Validate([action |-> call.action, ord |-> ord], given.model, j,
                          given.relationships))

Next ==
  \/ \E action \in Actions, ord \in Orders : CallValidate(action, ord)
  \/ \E sameType \in BOOLEAN, ord \in Orders : CallProcessCreate(sameType, ord)
  \/ \E sameType \in BOOLEAN, ord \in Orders : CallProcessUpdate(sameType, ord)
  \/ \E ord \in Orders, m \in {model, given.model},
        rels \in {relationships, given.relationships} :
          CallValidateAgain(ord, m, attributes, rels)
  \/ \E ord \in Orders, j \in Omissions(given.model, attributes) :
        CallValidateOmitted(ord, j)

Spec == Init /\ [][Next]_vars

-----------------------------------------------------------------------------
(* The state machine of a Document: starting from New(), the object is     *)
(* validated for a request (Object.Validate), objects are added            *)
(* (Document.AddObject) and errors are added (Document.AddError), in any   *)
(* order.                                                                  *)

\* HTTP methods of the request, the supported ones and others
Methods == {"POST", "PATCH", "HEAD", "GET", "PUT", "DELETE"}

\* the objects that the calls start from
Objects ==
  { MkObject(type, id, status) :
      type \in {<<>>, stests}, id \in {<<>>, sID123}, status \in {0, 200, 202, 404} }

\* the errors given to AddError: nil, an Error without status, errors of the
\* package
ErrorArgs ==
  { <<>>, <<MkError(0, "", "", <<>>, "")>>, <<SpecificationError("Type must be set for Object response")>>,
    <<ISE("Invalid attempt to add data to an error document")>> }

\* the variables of the validator
validatorVars ==
  <<model, attributes, relationships, pc, call, given, arg, fields, errors, panicked,
    log, second>>

DocInit ==
  /\ model = VInvalid
  /\ attributes = JAbsent
  /\ relationships = NoRels
  /\ pc = "none"
  /\ call = [op |-> "none", action |-> <<>>, sameType |-> TRUE, validated |-> FALSE]
  /\ given = [model |-> VInvalid, relationships |-> NoRels]
  /\ arg = VInvalid
  /\ fields = <<>>
  /\ errors = <<>>
  /\ panicked = FALSE
  /\ log = <<>>
  /\ second = NoSecond
  /\ object \in Objects
  /\ document = New
  /\ last = NoCall

\* the call made and what it returned, with the object and the document as
\* they were before it
Called(op, method, response, ref, newErr, r) ==
  last' = [op |-> op, method |-> method, response |-> response, ref |-> ref,
           newErr |-> newErr, err |-> r.err, panicked |-> r.panic,
           object |-> object, document |-> document]

\* object.Validate(r, response)
CallObjectValidate(method, response) ==
  /\ ~last.panicked
  /\ object' = ObjectValidate(object, method, response).o
  /\ Called("Validate", method, response, TheObject, <<>>,
            [err |-> ObjectValidate(object, method, response).err, panic |-> FALSE])
  /\ UNCHANGED document
  /\ UNCHANGED validatorVars

\* document.AddObject(ref)
CallAddObject(ref) ==
  /\ ~last.panicked
  /\ document' = AddObject(document, ref, object).d
  /\ Called("AddObject", "", FALSE, ref, <<>>, AddObject(document, ref, object))
  /\ UNCHANGED object
  /\ UNCHANGED validatorVars

\* document.AddError(newErr)
CallAddError(newErr) ==
  /\ ~last.panicked
  /\ Len(document.Errors) < MaxErrors
  /\ document' = AddError(document, newErr).d
  /\ Called("AddError", "", FALSE, NilObject, newErr, AddError(document, newErr))
  /\ UNCHANGED object
  /\ UNCHANGED validatorVars

DocNext ==
  \/ \E method \in Methods, response \in BOOLEAN : CallObjectValidate(method, response)
  \/ \E ref \in {TheObject, NilObject} : CallAddObject(ref)
  \/ \E newErr \in ErrorArgs : CallAddError(newErr)

DocSpec == DocInit /\ [][DocNext]_vars

-----------------------------------------------------------------------------
(* Properties *)

Done == pc = "done"
Returned == pc = "done" /\ ~panicked
Walked == Returned /\ call.validated

\* the entries of the log for the struct levels, for the fields examined
StructLevels == { i \in DOMAIN log : log[i].op = "struct" }
FieldChecks == { i \in DOMAIN log : log[i].op = "field" }
RelChecks == { i \in DOMAIN log : log[i].op = "rel" }

\* C1: Validate, and validateStruct at every nesting level, return matched
\* paths or errors, never both: with errors the matched paths are nil.
C1_PathsOrErrors ==
  Done /\ call.validated =>
    /\ errors # <<>> => fields = <<>>
    /\ \A i \in StructLevels : log[i].errors # <<>> => log[i].fields = <<>>

\* a nested level that found an error after a field before it had matched
C1_Witness ==
  /\ Walked /\ errors # <<>> /\ fields = <<>>
  /\ \E i \in FieldChecks, j \in StructLevels :
       /\ i < j /\ log[i].tagged /\ ~log[i].zero
       /\ log[j].path # <<>> /\ log[j].errors # <<>>
       /\ log[i].path = JoinPath(log[j].path, sfoo)

\* the errors returned with the given detail and source pointer
ErrorsWith(detail, pointer) ==
  { k \in DOMAIN errors : errors[k].detail = detail /\ errors[k].pointer = pointer }

RECURSIVE Declared(_, _, _, _)
RECURSIVE DeclaredField(_, _, _, _)

\* The fields declared in the value v found at path, at any depth, for the
\* action: relationship fields (rel) with the path of their struct, attribute
\* fields with their own path.  live: every ancestor holds a value and is
\* tagged for the action.
Declared(v, path, live, action) ==
  IF v.k = "struct"
  THEN UNION { DeclaredField(v.f[i], path, live, action) : i \in DOMAIN v.f }
  ELSE IF v.k \in {"ptr", "interface"}
  THEN IF v.nil THEN {} ELSE Declared(v.e, path, live, action)
  ELSE IF v.k \in {"slice", "array"}
  THEN UNION { Declared(v.s[i], indexPath(path, i - 1), live, action) : i \in DOMAIN v.s }
  ELSE IF v.k = "map" /\ v.key = "string"
  THEN UNION { Declared(v.m[x], keyPath(path, x), live, action) : x \in DOMAIN v.m }
  ELSE {}

DeclaredField(f, path, live, action) ==
  LET tags == decodeFieldTags(f.jsh)
      opts == tagLookup(tags, action)
      key  == decodeJSONTag(f)
      p    == JoinPath(path, key)
      decl(rel, at, z) ==
        [rel |-> rel, path |-> at, name |-> f.name, zero |-> z, live |-> live,
         tagged |-> ~opts.nil, required |-> ~opts.nil /\ opts.required]
  IN  IF f.pkg THEN {}
      ELSE IF tagToOne \in DOMAIN tags \/ tagToMany \in DOMAIN tags
      THEN { decl(TRUE, path, FALSE) }
      ELSE IF key = tagIgnore THEN {}
      ELSE { decl(FALSE, p, isZero(f.v, FALSE) = "zero") }
           \cup Declared(f.v, p, live /\ ~opts.nil /\ isZero(f.v, FALSE) = "nonzero", action)

\* the fields declared in the model that Validate received
DeclaredInModel == Declared(arg.e, <<>>, TRUE, call.action)

\* a relationship was supplied for the relationship field d
Supplied(d) == \E n \in DOMAIN given.relationships : EqualFold(n, d.name)

\* the declared field d is required for the action and absent from the input
RequiredAbsent(d) == d.required /\ IF d.rel THEN ~Supplied(d) ELSE d.zero

\* the errors that say that the declared field d is required
RequiredErrors(d) ==
  IF d.rel
  THEN ErrorsWith("Required relationship", RelationshipPointer(toLowerFirstRune(d.name)))
       \cup ErrorsWith("Required relationship",
                       RelationshipPointer(JoinPath(d.path, toLowerFirstRune(d.name))))
  ELSE ErrorsWith("Required attribute", AttributePointer(d.path))
       \cup ErrorsWith("Required attribute", AttributePointer(toLowerFirstRune(d.path)))

LastSegment(s, n) ==
  \/ s = n
  \/ /\ Len(s) > Len(n)
     /\ SubSeq(s, Len(s) - Len(n), Len(s)) = fieldSep \o n

\* the relationship fields and the top-level attribute fields that are declared
DeclaredRelationships == { d \in DeclaredInModel : d.rel }
TopLevelKeys ==
  { decodeJSONTag(arg.e.f[i]) : i \in { i \in DOMAIN arg.e.f : ~arg.e.f[i].pkg } }

\* the names supplied in Object.Relationships and the keys supplied in
\* Object.Attributes for which no field is declared
UnknownRelationships ==
  { n \in DOMAIN given.relationships :
      \A d \in DeclaredRelationships : ~EqualFold(n, d.name) }
UnknownAttributes ==
  IF attributes.k # "object" THEN {}
  ELSE { n \in DOMAIN attributes.m : \A key \in TopLevelKeys : ~EqualFold(n, key) }

\* the errors that say that the relationship, the attribute n does not exist
NoRelationshipErrors(n) ==
  { k \in DOMAIN errors :
      /\ errors[k].detail = "Relationship does not exist"
      /\ \E p \in { SubSeq(errors[k].pointer, Len(RelationshipPrefix) + 1,
                           Len(errors[k].pointer)) } : LastSegment(p, n) }
NoAttributeErrors(n) ==
  { k \in DOMAIN errors :
      /\ errors[k].detail = "Attribute does not exist"
      /\ errors[k].pointer = AttributePointer(n) }

\* C3, as claimed: every supplied relationship name and every raw attribute
\* key for which no field is declared gets exactly one 'does not exist'
\* error, also when nested structs are walked.
C3_ExactlyOnePerName ==
  Walked /\ arg.k = "ptr" /\ ~arg.nil /\ arg.e.k = "struct" =>
    /\ \A n \in UnknownRelationships : Cardinality(NoRelationshipErrors(n)) = 1
    /\ \A n \in UnknownAttributes : Cardinality(NoAttributeErrors(n)) = 1

\* the errors returned with the given status and source pointer
ForbiddenErrors(pointer) ==
  { k \in DOMAIN errors : errors[k].status = 403 /\ errors[k].pointer = pointer }

RECURSIVE Flatten(_)
Flatten(ss) == IF ss = <<>> THEN <<>> ELSE Head(ss) \o Flatten(Tail(ss))

RECURSIVE PreOrder(_, _)
RECURSIVE PreOrderBelow(_, _)
RECURSIVE PreOrderField(_, _)

\* The paths of a successful walk in pre-order: the path of a value that is
\* visited, then the paths below it.
PreOrder(v, path) == <<path>> \o PreOrderBelow(v, path)

\* struct fields in declaration order, slice and array elements in index
\* order under path/index, map entries in key order under path/key; a pointer
\* or an interface adds no segment
PreOrderBelow(v, path) ==
  IF v.k = "struct"
  THEN Flatten([i \in DOMAIN v.f |-> PreOrderField(v.f[i], path)])
  ELSE IF v.k \in {"ptr", "interface"}
  THEN IF v.nil THEN <<>> ELSE PreOrderBelow(v.e, path)
  ELSE IF v.k \in {"slice", "array"}
  THEN Flatten([i \in DOMAIN v.s |-> PreOrder(v.s[i], path \o fieldSep \o Itoa(i - 1))])
  ELSE IF v.k = "map"
  THEN Flatten([i \in DOMAIN SortKeys(DOMAIN v.m) |->
                  PreOrder(v.m[SortKeys(DOMAIN v.m)[i]],
                           path \o fieldSep \o SortKeys(DOMAIN v.m)[i])])
  ELSE <<>>

\* a field that holds a value is visited; a relationship field that was
\* supplied is matched under its name
PreOrderField(f, path) ==
  LET tags == decodeFieldTags(f.jsh)
      key  == decodeJSONTag(f)
  IN  IF f.pkg THEN <<>>
      ELSE IF tagToOne \in DOMAIN tags \/ tagToMany \in DOMAIN tags
      THEN IF \E n \in DOMAIN given.relationships : EqualFold(n, f.name)
           THEN <<toLowerFirstRune(f.name)>> ELSE <<>>
      ELSE IF key = tagIgnore \/ isZero(f.v, FALSE) # "nonzero" THEN <<>>
      ELSE PreOrder(f.v, IF path = <<>> THEN key ELSE path \o fieldSep \o key)

Succeeded == Walked /\ errors = <<>>

\* C5: on success the matched paths are the visited levels in pre-order: a
\* field's own path, then its children in declaration order (struct fields)
\* or index order (slice and array elements, under parent/index); pointers and
\* interfaces add no segment.
C5_PreOrder == Succeeded => fields = PreOrderBelow(arg.e, <<>>)

\* a list of {Foo, Bar} with one element yields foo, foo/0, foo/0/foo, foo/0/bar
C5_Witness ==
  /\ Succeeded
  /\ fields = << sfoo, sfoo \o <<"/", "0">>, sfoo \o <<"/", "0", "/">> \o sfoo,
                 sfoo \o <<"/", "0", "/">> \o sbar >>

\* the declared fields that a successful walk matches
Matched(d) == d.live /\ d.tagged /\ IF d.rel THEN Supplied(d) ELSE ~d.zero
IsNested(d) == IF d.rel THEN d.path # <<>> ELSE \E i \in DOMAIN d.path : d.path[i] = optionSep

\* the path of the declared field d with every ancestor segment
FullPath(d) == IF d.rel THEN JoinPath(d.path, toLowerFirstRune(d.name)) ELSE d.path

\* C6, as claimed: the path matched for a nested field, attribute or
\* relationship, is P/<field key>, never the bare key.
C6_AncestorSegments ==
  Succeeded =>
    \A d \in DeclaredInModel : Matched(d) /\ IsNested(d) => FullPath(d) \in Range(fields)

\* C6: the path matched for a nested attribute field is P/<field key>, with
\* every ancestor segment; the path matched for a relationship field is its
\* field name with the first rune in lower case, without the path P of the
\* struct that declares it.
C6_NestedPaths ==
  Succeeded =>
    \A d \in DeclaredInModel :
      Matched(d) /\ IsNested(d) =>
        IF d.rel
        THEN /\ toLowerFirstRune(d.name) \in Range(fields)
             /\ FullPath(d) \notin Range(fields)
        ELSE FullPath(d) \in Range(fields)

\* a relationship field of the struct at bars is matched as foo, next to bars
C6_Witness ==
  /\ Succeeded
  /\ \E d \in DeclaredInModel : Matched(d) /\ d.rel /\ d.path = sbars /\ d.name = sFoo
  /\ fields = <<sbars, sfoo>>

\* C7, as claimed: every problem is returned, also those of different
\* elements of one slice, array or map: every required attribute that is
\* absent, under ancestors that hold values tagged for the action, has its
\* error.
C7_EveryProblem ==
  Walked /\ arg.k = "ptr" /\ ~arg.nil =>
    \A d \in DeclaredInModel :
      d.live /\ ~d.rel /\ RequiredAbsent(d) => RequiredErrors(d) # {}

\* the model given to the call is nil, no pointer, or a pointer to a non-struct
BadModel == given.model.k # "ptr" \/ given.model.nil \/ given.model.e.k # "struct"

InternalErrors == { k \in DOMAIN errors : errors[k].status = 500 }

\* C8, as claimed: Validate, ProcessCreate and ProcessUpdate (called with the
\* type of the object) answer such a model with exactly one error, an
\* Internal one, and nil matched paths.
C8_OneInternalError ==
  Returned /\ call.sameType /\ BadModel =>
    Len(errors) = 1 /\ errors[1].status = 500 /\ fields = <<>>

\* C9, as claimed: an attribute field (tagged for the action) that is a map
\* keyed by a non-string type gets exactly one Internal error and no matched
\* paths, whatever data is supplied for it, also when the map is nil.
C9_AlwaysInternal ==
  Walked /\ (\E i \in FieldChecks :
               log[i].kind = "map" /\ log[i].key # "string" /\ log[i].tagged) =>
    Cardinality(InternalErrors) = 1 /\ fields = <<>>

\* the to-many relationship fields examined whose linkage was accepted: it
\* has data and the field is tagged for the action
AcceptedToMany ==
  { i \in RelChecks : log[i].many /\ ~log[i].zero /\ log[i].tagged /\ log[i].data # <<>> }

\* the field is no map, or a map with an unsupported key type or a value type
\* that *IDObject cannot be assigned to
BadToManyType(e) ==
  e.kind # "map" \/ e.key \notin {"string", "int"} \/ ~IDAssignableTo(e.et)

NonNumericID(e) == \E k \in DOMAIN e.data : ~Atoi(e.data[k].id).ok

\* nothing else can be answered with an Internal error: the model is a pointer
\* to a struct, the attributes are an object or absent, no to-one relationship
\* was examined and no attribute field was walked below its own level
NoOtherInternal ==
  /\ ~BadModel
  /\ attributes.k \in {"absent", "object"}
  /\ \A i \in RelChecks : log[i].many
  /\ \A i \in FieldChecks :
       log[i].zero \/ ~log[i].tagged \/ log[i].kind \in {"string", "int", "float64"}

\* C10: when the call returns, a to-many relationship field whose map is keyed
\* by int, given an accepted linkage with a non-numeric id, gets one 422
\* relationship error with pointer /data/relationships/<field> and no Internal
\* error; a field that is no map, or whose map has an unsupported key type or
\* a wrong value type, gets an Internal error and no relationship error.
C10_ToManyErrors ==
  Walked =>
    /\ \A i \in AcceptedToMany :
         IF BadToManyType(log[i])
         THEN /\ InternalErrors # {}
              /\ \A k \in DOMAIN errors :
                   errors[k].pointer # RelationshipPointer(log[i].name)
         ELSE log[i].key = "int" /\ NonNumericID(log[i]) =>
                /\ Cardinality(ErrorsWith("Invalid resource ID",
                                          RelationshipPointer(log[i].name))) = 1
                /\ \A k \in ErrorsWith("Invalid resource ID",
                                       RelationshipPointer(log[i].name)) :
                     errors[k].status = 422
    /\ NoOtherInternal =>
         Cardinality(InternalErrors)
           = Cardinality({ i \in AcceptedToMany : BadToManyType(log[i]) })

\* a map keyed by int got a numeric id and then one that is no number
C10_Witness ==
  /\ Walked
  /\ \E i \in AcceptedToMany :
       /\ log[i].key = "int" /\ ~BadToManyType(log[i])
       /\ Len(log[i].data) = 2 /\ Atoi(log[i].data[1].id).ok /\ ~Atoi(log[i].data[2].id).ok
  /\ Len(errors) = 1 /\ errors[1].status = 422
  /\ errors[1].pointer = RelationshipPointer(sfoos)

-----------------------------------------------------------------------------
(* Properties of a second call *)

\* the first call reached the validator and succeeded
FirstSucceeded == call.validated /\ ~panicked /\ errors = <<>>

\* the second call was made with the model as the first call left it and the
\* raw attributes of the object
Revalidated ==
  pc = "again" /\ second.model = model /\ second.attributes = attributes

\* C11, as claimed: after a successful validation, validating the populated
\* model again for the same action against the same object, as the first
\* call left it, returns the identical matched paths, those of relationship
\* fields included.
C11_SameObject ==
  FirstSucceeded /\ Revalidated /\ second.relationships = relationships =>
    ~second.panicked /\ second.fields = fields

\* C11: after a successful validation, validating the populated model again
\* for the same action against the same raw attributes and the relationship
\* set as it was supplied to the first call returns the identical matched
\* paths, those of relationship fields included, and no error.
C11_Resupplied ==
  FirstSucceeded /\ Revalidated /\ second.relationships = given.relationships =>
    ~second.panicked /\ second.fields = fields /\ second.errors = <<>>

\* the first call bound a relationship into the model and consumed it; the
\* second call, given the relationship again, matched the same paths
C11_Witness ==
  /\ FirstSucceeded /\ Revalidated /\ second.relationships = given.relationships
  /\ relationships # given.relationships /\ model # given.model
  /\ \E i \in RelChecks : ~log[i].zero /\ \E k \in DOMAIN fields : fields[k] = log[i].name
  /\ second.fields = fields /\ second.errors = <<>>

-----------------------------------------------------------------------------
(* Properties of the relationship binder *)

\* the number of errors returned with the given status, detail and pointer
CountErrors(status, detail, pointer) ==
  Cardinality({ k \in ErrorsWith(detail, pointer) : errors[k].status = status })

\* the number of Forbidden errors returned with the given pointer
CountForbidden(pointer) ==
  Cardinality({ k \in DOMAIN errors : errors[k].status = 403 /\ errors[k].pointer = pointer })

\* the verdict on the relationship field of the log entry e: how many errors
\* of each kind were returned for it
Verdict(e) ==
  LET ptr == RelationshipPointer(e.name)
  IN  [required  |-> CountErrors(422, "Required relationship", ptr),
       missing   |-> CountErrors(422, "Missing relationship data", ptr),
       multiple  |-> CountErrors(422, "Multiple objects for to-one relation", ptr),
       forbidden |-> CountForbidden(ptr)]

VerdictOf(required, missing, multiple, forbidden) ==
  [required |-> required, missing |-> missing, multiple |-> multiple,
   forbidden |-> forbidden]

\* the relationship field of the log entry e was matched
RelMatched(e) == \E k \in DOMAIN fields : fields[k] = e.name

\* C12: the relationship binder decides in this order, first match wins:
\* linkage absent and required, 'Required relationship' (422); absent and not
\* required, no match and no error; present with empty data, 'Missing
\* relationship data' (422); to-one with more than one entry, 'Multiple
\* objects for to-one relation' (422); present with no tag for the action,
\* Forbidden (403) with pointer /data/relationships/<field>; otherwise
\* accepted.
C12_BinderOrder ==
  Walked =>
    \A i \in RelChecks :
      LET e == log[i]
      IN  IF e.zero /\ e.required THEN Verdict(e) = VerdictOf(1, 0, 0, 0) /\ ~RelMatched(e)
          ELSE IF e.zero THEN Verdict(e) = VerdictOf(0, 0, 0, 0) /\ ~RelMatched(e)
          ELSE IF e.data = <<>> THEN Verdict(e) = VerdictOf(0, 1, 0, 0) /\ ~RelMatched(e)
          ELSE IF ~e.many /\ Len(e.data) > 1
          THEN Verdict(e) = VerdictOf(0, 0, 1, 0) /\ ~RelMatched(e)
          ELSE IF ~e.tagged THEN Verdict(e) = VerdictOf(0, 0, 0, 1) /\ ~RelMatched(e)
          ELSE Verdict(e) = VerdictOf(0, 0, 0, 0)

\* a to-one field without a tag for the action was given two identifiers: the
\* answer is the 422 of the earlier rule, not the 403
C12_Witness ==
  /\ Walked
  /\ \E i \in RelChecks :
       /\ ~log[i].zero /\ ~log[i].many /\ ~log[i].tagged /\ Len(log[i].data) = 2
       /\ Verdict(log[i]) = VerdictOf(0, 0, 1, 0)
  /\ Len(errors) = 1 /\ errors[1].status = 422

RECURSIVE RelValues(_, _)

\* the relationship fields found in the value v at path, at any depth: the
\* path of their struct, their matched name and their value
RelValues(v, path) ==
  IF v.k = "struct"
  THEN UNION { LET f    == v.f[i]
                   tags == decodeFieldTags(f.jsh)
               IN  IF f.pkg THEN {}
                   ELSE IF tagToOne \in DOMAIN tags \/ tagToMany \in DOMAIN tags
                   THEN { [path |-> path, name |-> toLowerFirstRune(f.name), v |-> f.v] }
                   ELSE IF decodeJSONTag(f) = tagIgnore THEN {}
                   ELSE RelValues(f.v, JoinPath(path, decodeJSONTag(f))) : i \in DOMAIN v.f }
  ELSE IF v.k \in {"ptr", "interface"}
  THEN IF v.nil THEN {} ELSE RelValues(v.e, path)
  ELSE IF v.k \in {"slice", "array"}
  THEN UNION { RelValues(v.s[i], indexPath(path, i - 1)) : i \in DOMAIN v.s }
  ELSE IF v.k = "map" /\ v.key = "string"
  THEN UNION { RelValues(v.m[x], keyPath(path, x)) : x \in DOMAIN v.m }
  ELSE {}

\* the value of the relationship field of the log entry e in the model m
RelValue(m, e) ==
  (CHOOSE d \in RelValues(m, <<>>) : d.path = e.path /\ d.name = e.name).v

\* the relationship fields examined whose linkage the binder was handed
Accepted ==
  { i \in RelChecks :
      /\ ~log[i].zero /\ log[i].tagged /\ log[i].data # <<>>
      /\ log[i].many \/ Len(log[i].data) = 1 }

\* the binder can set the field of the log entry e
Bindable(e) ==
  IF e.many THEN ~BadToManyType(e) /\ (e.key = "int" => ~NonNumericID(e))
  ELSE IDAssignableTo(e.type)

\* the key under which a to-many map of the given key kind holds identifier d
ManyKey(key, d) == IF key = "int" THEN Atoi(d.id).n ELSE d.id

\* the field value v holds the linkage of the log entry e
Bound(v, e) ==
  IF e.many
  THEN \A k \in DOMAIN e.data :
         /\ ManyKey(e.key, e.data[k]) \in DOMAIN v.m
         /\ v.m[ManyKey(e.key, e.data[k])].k = "ptr"
         /\ \E n \in DOMAIN e.data :
              /\ ManyKey(e.key, e.data[n]) = ManyKey(e.key, e.data[k])
              /\ v.m[ManyKey(e.key, e.data[k])] = IDValue(e.data[n])
  ELSE v = IF e.type = "interface{}" THEN VIface(IDValue(e.data[1]))
           ELSE IDValue(e.data[1])

\* the number of times the path p is in the matched paths
Times(p) == Cardinality({ k \in DOMAIN fields : fields[k] = p })

\* C13: when a relationship is accepted and the call returns, a to-one field
\* that *IDObject is assignable to holds the single identifier of the linkage,
\* a to-many map holds every entry of the linkage under its id (the string,
\* or the integer it parses to), and if the call has no error the field's
\* name with a lower-cased first rune is in the matched paths exactly once; a
\* to-one field of another type is left as it was, with an Internal error and
\* no matched path.
C13_AcceptedIsBound ==
  Walked =>
    \A i \in Accepted :
      IF Bindable(log[i])
      THEN /\ Bound(RelValue(model, log[i]), log[i])
           /\ errors = <<>> => Times(log[i].name) = 1
      ELSE ~log[i].many =>
             /\ InternalErrors # {} /\ fields = <<>>
             /\ RelValue(model, log[i]) = RelValue(arg, log[i])

\* a to-many map keyed by int received two entries, under 1 and 2
C13_Witness ==
  /\ Succeeded
  /\ \E i \in Accepted :
       /\ log[i].many /\ log[i].key = "int" /\ Len(log[i].data) = 2
       /\ DOMAIN RelValue(model, log[i]).m = {1, 2}
       /\ RelValue(model, log[i]).m[2] = IDValue(idTwo)
       /\ fields = <<log[i].name>>

-----------------------------------------------------------------------------
(* Properties of the fields of one struct level *)

\* the field f is a relationship field
IsRelationship(f) ==
  tagToOne \in DOMAIN decodeFieldTags(f.jsh) \/ tagToMany \in DOMAIN decodeFieldTags(f.jsh)

\* the exported attribute fields of the model that Validate received
\* (indices into the fields of its struct)
TopFields == { i \in DOMAIN arg.e.f : ~arg.e.f[i].pkg /\ ~IsRelationship(arg.e.f[i]) }

\* those marked json:"-"
IgnoredFields == { i \in TopFields : decodeJSONTag(arg.e.f[i]) = tagIgnore }

\* the raw keys of the top level
RawKeys == IF attributes.k = "object" THEN DOMAIN attributes.m ELSE {}

\* the raw keys that equal the name of field i ignoring case, and that no
\* field of the level resolves to
KeysNamed(i) ==
  { x \in RawKeys :
      /\ EqualFold(x, arg.e.f[i].name)
      /\ \A n \in TopFields \ IgnoredFields : ~EqualFold(x, decodeJSONTag(arg.e.f[n])) }

\* the paths under which an error or a match for field i could be recorded
PathsOf(i) == { tagIgnore, arg.e.f[i].name, toLowerFirstRune(arg.e.f[i].name) }

\* C14: a non-relationship field marked json:"-" is skipped entirely: it is
\* not examined, whatever its value and jsh tags, it gets no matched path, no
\* 'Required attribute' and no Forbidden error, its value is left unchanged,
\* and it consumes no raw key: a raw key with the field's name is reported,
\* once, as a non-existent attribute.
C14_IgnoredSkipped ==
  Walked /\ ~BadModel =>
    \A i \in IgnoredFields :
      /\ \A n \in FieldChecks : log[n].name # arg.e.f[i].name
      /\ \A p \in PathsOf(i) :
           /\ Times(p) = 0
           /\ CountErrors(422, "Required attribute", AttributePointer(p)) = 0
           /\ CountForbidden(AttributePointer(p)) = 0
      /\ model.e.f[i].v = arg.e.f[i].v
      /\ \A x \in KeysNamed(i) :
           CountErrors(422, "Attribute does not exist", AttributePointer(x)) = 1

\* an ignored field that holds a value and has no jsh tag, with a raw key of
\* its name: the only error is that the attribute does not exist
C14_Witness ==
  /\ Walked /\ ~BadModel
  /\ \E i \in IgnoredFields :
       /\ arg.e.f[i].v = VStr(sbar) /\ arg.e.f[i].jsh = tNone
       /\ KeysNamed(i) = {sfoo}
  /\ Len(errors) = 1 /\ errors[1].detail = "Attribute does not exist"
  /\ errors[1].pointer = AttributePointer(sfoo)

\* the fields of the top level without a json tag name
UntaggedJSON == { i \in TopFields : Split(arg.e.f[i].json, tagSep)[1] = <<>> }

\* C15, as claimed: a field without a json tag name has its field name as
\* key: it consumes the raw key that equals its field name ignoring case,
\* which is then not reported as non-existent, and it is examined under that
\* name.
C15_DefaultsToFieldName ==
  Walked /\ ~BadModel =>
    \A i \in UntaggedJSON :
      /\ \A x \in RawKeys :
           EqualFold(x, arg.e.f[i].name) =>
             CountErrors(422, "Attribute does not exist", AttributePointer(x)) = 0
      /\ \A n \in FieldChecks :
           log[n].name = arg.e.f[i].name => EqualFold(log[n].path, arg.e.f[i].name)

\* the path p is the path q or a path below it
AtOrBelow(p, q) ==
  \/ p = q
  \/ Len(p) > Len(q) /\ SubSeq(p, 1, Len(q) + 1) = q \o fieldSep

\* C16: an attribute field whose value is zero for the zero-value detector and
\* which is not required for the action is silently skipped: it gets no
\* 'Required attribute' and no Forbidden error, neither it nor anything below
\* it is matched or examined, whether it has no tag at all, a tag for the
\* other action only, or a tag for the action without the required option.
C16_ZeroSkipped ==
  Walked =>
    \A i \in FieldChecks :
      log[i].zero /\ ~log[i].required =>
        /\ CountErrors(422, "Required attribute",
                       AttributePointer(toLowerFirstRune(log[i].path))) = 0
        /\ CountForbidden(AttributePointer(toLowerFirstRune(log[i].path))) = 0
        /\ \A k \in DOMAIN fields : ~AtOrBelow(fields[k], log[i].path)
        /\ \A n \in FieldChecks : n # i => ~AtOrBelow(log[n].path, log[i].path)
        /\ \A n \in StructLevels \cup RelChecks :
             log[n].path # <<>> => ~AtOrBelow(log[n].path, log[i].path)

\* a create call on a model whose first field is empty and tagged for update
\* only and whose second is empty and has no tag: nothing matched, no error
C16_Witness ==
  /\ Walked /\ call.op = "Validate" /\ call.action = tagCreate /\ ~BadModel
  /\ Len(arg.e.f) = 2
  /\ arg.e.f[1].jsh = tUpdate /\ arg.e.f[2].jsh = tNone
  /\ \A i \in FieldChecks : log[i].zero /\ ~log[i].tagged
  /\ Cardinality(FieldChecks) = 2
  /\ fields = <<>> /\ errors = <<>>

-----------------------------------------------------------------------------
(* Properties of Object.ProcessUpdate *)

\* what ProcessUpdate has to return when process returned r
UpdateOutcome(r) ==
  IF r.errors # <<>> THEN fields = <<>> /\ errors = r.errors
  ELSE IF r.fields = <<>>
  THEN fields = <<>> /\ Len(errors) = 1 /\ errors[1].status = 400
  ELSE fields = r.fields /\ errors = <<>>

\* what the validator returned to process: the return of the top struct level
Validated == log[Len(log)]

\* C17: ProcessUpdate behaves like ProcessCreate with the update tag (it
\* returns what process returns for the update action on the same model,
\* attributes and relationships), except that with no error and no matched
\* path it returns nil paths and exactly one 400 error; errors are returned
\* unchanged with nil paths; otherwise the matched paths and nil errors.
C17_UpdateOutcome ==
  Returned /\ call.op = "ProcessUpdate" =>
    /\ call.action = tagUpdate
    /\ \E ord \in Orders :
         UpdateOutcome(process([action |-> tagUpdate, ord |-> ord], call.sameType,
                               given.model, attributes, given.relationships))
    /\ call.validated /\ log # <<>> => UpdateOutcome(Validated)

\* the update validation found nothing wrong and nothing to update
C17_Witness ==
  /\ Returned /\ call.op = "ProcessUpdate" /\ call.validated /\ log # <<>>
  /\ Validated.op = "struct" /\ Validated.path = <<>>
  /\ Validated.errors = <<>> /\ Validated.fields = <<>>
  /\ fields = <<>> /\ Len(errors) = 1 /\ errors[1].status = 400
  /\ errors[1].detail = "Missing description of changes"

-----------------------------------------------------------------------------
(* Properties of two calls on related inputs *)

\* the second call was a Validate call on the model and the relationships
\* given to the first, a Validate call too
Repeated ==
  /\ pc = "again" /\ call.op = "Validate"
  /\ second.model = given.model /\ second.relationships = given.relationships

\* the second call was given the raw attributes of the first but for one key
\* of a field, which the first had set to the zero value of the field's type
Omitted == Repeated /\ second.attributes # attributes

\* no two keys of an object of the message j are equal ignoring case
RECURSIVE NoFoldedKeys(_)
NoFoldedKeys(j) ==
  IF j.k = "object"
  THEN /\ \A x, y \in DOMAIN j.m : EqualFold(x, y) => x = y
       /\ \A x \in DOMAIN j.m : NoFoldedKeys(j.m[x])
  ELSE IF j.k = "array" THEN \A i \in DOMAIN j.arr : NoFoldedKeys(j.arr[i])
  ELSE TRUE

\* the error lists hold the same errors, each as many times
SameErrors(a, b) ==
  /\ Len(a) = Len(b)
  /\ \A k \in DOMAIN a :
       Cardinality({ n \in DOMAIN a : a[n] = a[k] })
         = Cardinality({ n \in DOMAIN b : b[n] = a[k] })

-----------------------------------------------------------------------------
(* Properties of the matched paths against what was supplied *)

\* the raw message j has a key, or an element, at each segment of the path:
\* keys are compared ignoring case
RECURSIVE HasRawPath(_, _)
HasRawPath(j, segs) ==
  IF segs = <<>> THEN TRUE
  ELSE IF j.k = "object"
  THEN \E x \in DOMAIN j.m : EqualFold(x, Head(segs)) /\ HasRawPath(j.m[x], Tail(segs))
  ELSE IF j.k = "array"
  THEN /\ Atoi(Head(segs)).ok
       /\ Atoi(Head(segs)).n + 1 \in DOMAIN j.arr
       /\ HasRawPath(j.arr[Atoi(Head(segs)).n + 1], Tail(segs))
  ELSE FALSE

\* the matched path p was supplied: it is the name of a relationship field
\* that was handed an entry of the supplied relationship set, or the path of
\* a key of the raw attributes
SuppliedPath(p) ==
  \/ /\ \E i \in RelChecks : log[i].name = p /\ ~log[i].zero
     /\ \E n \in DOMAIN given.relationships : EqualFold(n, p)
  \/ HasRawPath(attributes, Split(p, "/"))

\* every attribute field of the model given to the call is zero
FreshModel ==
  /\ ~BadModel
  /\ \A i \in DOMAIN given.model.e.f :
       \/ given.model.e.f[i].pkg
       \/ IsRelationship(given.model.e.f[i])
       \/ isZero(given.model.e.f[i].v, FALSE) = "zero"

C20_Reproducible ==
  Repeated /\ second.attributes = attributes =>
    ~second.panicked /\ second.fields = fields /\ second.errors = errors

-----------------------------------------------------------------------------
(* Properties of the order of the errors of one struct level *)

\* the value found in v along the segments of a path: a pointer or an
\* interface is followed, a field is found by its key, an element by its
\* index, an entry by its key
RECURSIVE ValueAt(_, _)
ValueAt(v, segs) ==
  IF v.k \in {"ptr", "interface"}
  THEN IF v.nil THEN VInvalid ELSE ValueAt(v.e, segs)
  ELSE IF segs = <<>> THEN v
  ELSE IF v.k = "struct"
  THEN LET I == { i \in DOMAIN v.f : /\ ~v.f[i].pkg /\ ~IsRelationship(v.f[i])
                                     /\ decodeJSONTag(v.f[i]) = Head(segs) }
       IN  IF I = {} THEN VInvalid
           ELSE ValueAt(v.f[CHOOSE i \in I : \A n \in I : i <= n].v, Tail(segs))
  ELSE IF v.k \in {"slice", "array"}
  THEN IF Atoi(Head(segs)).ok /\ Atoi(Head(segs)).n + 1 \in DOMAIN v.s
       THEN ValueAt(v.s[Atoi(Head(segs)).n + 1], Tail(segs)) ELSE VInvalid
  ELSE IF v.k = "map" /\ v.key = "string"
  THEN IF Head(segs) \in DOMAIN v.m THEN ValueAt(v.m[Head(segs)], Tail(segs)) ELSE VInvalid
  ELSE VInvalid

\* the struct that the level recorded at log[i] walked
LevelStruct(i) ==
  ValueAt(arg, IF log[i].path = <<>> THEN <<>> ELSE Split(log[i].path, "/"))

\* the pointer p is the prefix followed by a path below the path q
PointsBelow(p, prefix, q) ==
  LET base == prefix \o q \o fieldSep
  IN  Len(p) > Len(base) /\ SubSeq(p, 1, Len(base)) = base

\* the pointer p is the prefix followed by path/name for a name without '/'
PointsAtKey(p, prefix, path) ==
  LET base == IF path = <<>> THEN prefix ELSE prefix \o path \o fieldSep
  IN  /\ Len(p) > Len(base)
      /\ SubSeq(p, 1, Len(base)) = base
      /\ \A k \in Len(base) + 1 .. Len(p) : p[k] # "/"

\* the level's own errors for an unknown attribute, for an unknown relationship
UnknownAttributeError(e, path) ==
  e.detail = "Attribute does not exist" /\ PointsAtKey(e.pointer, AttributePrefix, path)
UnknownRelationshipError(e, path) ==
  e.detail = "Relationship does not exist" /\ PointsAtKey(e.pointer, RelationshipPrefix, path)

\* the error e may be the error of field i of the struct sv walked at path,
\* or an error propagated from the value of that field
ErrorOfField(e, sv, path, i) ==
  LET f == sv.f[i]
      p == JoinPath(path, decodeJSONTag(f))
  IN  /\ ~f.pkg
      /\ IF IsRelationship(f)
         THEN \/ e.pointer = <<>>
              \/ /\ e.pointer = RelationshipPointer(toLowerFirstRune(f.name))
                 /\ e.detail # "Relationship does not exist"
         ELSE \/ e.pointer = <<>>
              \/ /\ e.pointer \in { AttributePointer(p), AttributePointer(toLowerFirstRune(p)) }
                 /\ e.detail # "Attribute does not exist"
              \/ /\ PointsBelow(e.pointer, AttributePrefix, p)
                 /\ f.v.k \notin {"string", "int", "float64"}
              \/ /\ PointsBelow(e.pointer, AttributePrefix, toLowerFirstRune(p))
                 /\ f.v.k \notin {"string", "int", "float64"}
              \/ /\ Len(e.pointer) >= Len(RelationshipPrefix)
                 /\ SubSeq(e.pointer, 1, Len(RelationshipPrefix)) = RelationshipPrefix
                 /\ f.v.k \notin {"string", "int", "float64"}

\* the positions that the error e may take in the order claimed for the
\* level: i for field i, then one position for the unknown attributes and
\* one for the unknown relationships
Positions(e, sv, path) ==
  { i \in DOMAIN sv.f : ErrorOfField(e, sv, path, i) }
    \cup (IF UnknownAttributeError(e, path) THEN { Len(sv.f) + 1 } ELSE {})
    \cup (IF UnknownRelationshipError(e, path) THEN { Len(sv.f) + 2 } ELSE {})

\* the errors k, k+1, ... can be given positions that never decrease,
\* starting at prev
RECURSIVE InOrder(_, _, _)
InOrder(positions, k, prev) ==
  \/ k > Len(positions)
  \/ LET S == { r \in positions[k] : r >= prev }
     IN  S # {} /\ InOrder(positions, k + 1, CHOOSE r \in S : \A q \in S : r <= q)

\* C21: within one struct level the error list is ordered: first the errors
\* of the declared fields in declaration order, the errors propagated from a
\* field's nested value at that field's position, then the errors for the
\* unknown attributes, then the errors for the unknown relationships.
C21_LevelOrder ==
  Walked =>
    \A i \in StructLevels :
      LET sv == LevelStruct(i)
      IN  sv.k = "struct" =>
            InOrder([k \in DOMAIN log[i].errors |->
                       Positions(log[i].errors[k], sv, log[i].path)], 1, 1)

\* a level returned the error of its first field, then an error propagated
\* from the nested value of a later field, then the error for an unknown
\* attribute and the error for an unknown relationship
C21_Witness ==
  /\ Walked
  /\ \E i \in StructLevels :
       LET sv == LevelStruct(i)
           es == log[i].errors
       IN  /\ sv.k = "struct" /\ Len(es) >= 4
           /\ \E a, b, c, d \in DOMAIN es :
                /\ a < b /\ b < c /\ c < d
                /\ Positions(es[a], sv, log[i].path) = {1}
                /\ \E n \in DOMAIN sv.f :
                     /\ n > 1 /\ Positions(es[b], sv, log[i].path) = {n}
                     /\ PointsBelow(es[b].pointer, AttributePrefix,
                                    JoinPath(log[i].path, decodeJSONTag(sv.f[n])))
                /\ UnknownAttributeError(es[c], log[i].path)
                /\ UnknownRelationshipError(es[d], log[i].path)

-----------------------------------------------------------------------------
(* Properties of the tag decoder *)

\* the jsh tags of the fields declared in the value v, at any depth
RECURSIVE FieldTags(_)
FieldTags(v) ==
  IF v.k = "struct"
  THEN { v.f[i].jsh : i \in DOMAIN v.f } \cup UNION { FieldTags(v.f[i].v) : i \in DOMAIN v.f }
  ELSE IF v.k \in {"ptr", "interface"} THEN IF v.nil THEN {} ELSE FieldTags(v.e)
  ELSE IF v.k \in {"slice", "array"} THEN UNION { FieldTags(v.s[i]) : i \in DOMAIN v.s }
  ELSE IF v.k = "map" THEN UNION { FieldTags(v.m[x]) : x \in DOMAIN v.m }
  ELSE {}

\* the name of a segment: the text before its first '/'
SegmentName(seg) ==
  LET I == { i \in DOMAIN seg : seg[i] = "/" }
  IN  IF I = {} THEN seg ELSE SubSeq(seg, 1, (CHOOSE i \in I : \A n \in I : i <= n) - 1)

\* the name is not empty and made of letters, digits and the punctuation
\* that is allowed
NameAllowed(n) ==
  n # <<>> /\ \A i \in DOMAIN n : IsLetter(n[i]) \/ IsDigit(n[i]) \/ n[i] \in PunctChars

\* the segment is its name with the suffix /required
CarriesRequired(seg) == seg = SegmentName(seg) \o <<"/">> \o <<"r","e","q","u","i","r","e","d">>

\* the decoded tags are the mapping claimed for the tag string raw: an entry
\* for the name of each segment with an allowed name and for no other name,
\* required if the segments of that name carry the suffix and only if one does
DecodedAsClaimed(raw, tags) ==
  LET segs == Split(raw, ",")
      named(n) == { i \in DOMAIN segs : SegmentName(segs[i]) = n /\ NameAllowed(n) }
  IN  /\ DOMAIN tags = { SegmentName(segs[i]) : i \in { k \in DOMAIN segs : named(SegmentName(segs[k])) # {} } }
      /\ \A n \in DOMAIN tags :
           /\ tags[n].required => \E i \in named(n) : CarriesRequired(segs[i])
           /\ (\A i \in named(n) : CarriesRequired(segs[i])) => tags[n].required

\* the field of the top level that the log entry i is about
LoggedTopField(i) ==
  { n \in DOMAIN arg.e.f :
      /\ arg.e.f[n].name = log[i].name
      /\ log[i].path = IF IsRelationship(arg.e.f[n]) THEN toLowerFirstRune(arg.e.f[n].name)
                       ELSE decodeJSONTag(arg.e.f[n])
      /\ \A k \in 1..(i - 1) : log[k].op # "struct" }

\* C22: the tag decoder maps a tag string to directive name -> {required}:
\* each comma-separated segment whose name (the text before '/') is not empty
\* and made of letters, digits and the allowed punctuation becomes an entry,
\* required iff the segment carries the /required suffix; every other segment
\* is dropped; a field has permission for an action iff the mapping has an
\* entry for the action name, so that "invalid" alone grants no permission.
C22_TagDecoder ==
  Walked =>
    /\ \A raw \in FieldTags(arg) : DecodedAsClaimed(raw, decodeFieldTags(raw))
    /\ \A i \in FieldChecks \cup RelChecks : \A n \in LoggedTopField(i) :
         /\ log[i].tagged <=>
              \E seg \in Range(Split(arg.e.f[n].jsh, ",")) :
                SegmentName(seg) = call.action /\ NameAllowed(call.action)
         /\ arg.e.f[n].jsh = sinvalid => ~log[i].tagged

\* a field tagged "invalid" alone holds a value and was examined for create:
\* the mapping has the entry "invalid" and none for create, the field was
\* refused
C22_Witness ==
  /\ Walked /\ call.action = tagCreate
  /\ \E i \in FieldChecks : \E n \in LoggedTopField(i) :
       /\ ~log[i].zero /\ arg.e.f[n].jsh = sinvalid
       /\ DOMAIN decodeFieldTags(arg.e.f[n].jsh) = {sinvalid}
       /\ ~log[i].tagged /\ ForbiddenErrors(AttributePointer(log[i].path)) # {}

-----------------------------------------------------------------------------
(* Properties of the matching of names *)

\* the exported fields of the top level: attribute fields that are not
\* ignored, relationship fields
TopAttributes == TopFields \ IgnoredFields
TopRelationships == { i \in DOMAIN arg.e.f : ~arg.e.f[i].pkg /\ IsRelationship(arg.e.f[i]) }

\* the raw keys equal to the key of attribute field i ignoring case, the
\* supplied relationship names equal to the name of relationship field i
\* ignoring case
KeysOf(i) == { x \in RawKeys : EqualFold(x, decodeJSONTag(arg.e.f[i])) }
NamesOf(i) == { x \in DOMAIN given.relationships : EqualFold(x, arg.e.f[i].name) }

\* no other field of the level matches the same keys, the same names
OnlyAttribute(i) ==
  \A n \in TopAttributes \ {i} : ~EqualFold(decodeJSONTag(arg.e.f[n]), decodeJSONTag(arg.e.f[i]))
OnlyRelationship(i) ==
  \A n \in TopRelationships \ {i} : ~EqualFold(arg.e.f[n].name, arg.e.f[i].name)

\* the keys, the names, of S that are reported as unknown at the top level
UnknownKeys(S) ==
  { x \in S : ErrorsWith("Attribute does not exist", AttributePointer(x)) # {} }
UnknownNames(S) ==
  { x \in S : ErrorsWith("Relationship does not exist", RelationshipPointer(x)) # {} }

\* C24: name matching is case-insensitive and consumes at most one entry per
\* field: an attribute field removes from the raw keys of its level one key
\* equal to its resolved key ignoring case, a relationship field removes from
\* the relationship set one name equal to its field name ignoring case; the
\* other keys and names that differ only in case are left in the working set
\* and each is reported as unknown.
C24_OneEntryPerField ==
  Walked /\ arg.k = "ptr" /\ ~arg.nil /\ arg.e.k = "struct" =>
    /\ \A i \in TopAttributes :
         OnlyAttribute(i) /\ KeysOf(i) # {} =>
           /\ Cardinality(UnknownKeys(KeysOf(i))) = Cardinality(KeysOf(i)) - 1
           /\ \A x \in KeysOf(i) :
                Cardinality(ErrorsWith("Attribute does not exist", AttributePointer(x))) <= 1
    /\ \A i \in TopRelationships :
         OnlyRelationship(i) /\ NamesOf(i) # {} =>
           /\ Cardinality(NamesOf(i) \cap DOMAIN relationships) = Cardinality(NamesOf(i)) - 1
           /\ UnknownNames(NamesOf(i)) = NamesOf(i) \cap DOMAIN relationships
           /\ \E k \in RelChecks, x \in NamesOf(i) \ DOMAIN relationships :
                /\ log[k].name = toLowerFirstRune(arg.e.f[i].name)
                /\ ~log[k].zero /\ log[k].data = given.relationships[x].data

\* the raw keys foo and FOO were supplied for the field with key foo: one was
\* consumed and the other is reported; the names baz and Baz were supplied
\* for the relationship field Baz: one was handed to the field, the other is
\* left in the set and reported
C24_Witness ==
  /\ Walked /\ arg.k = "ptr" /\ ~arg.nil /\ arg.e.k = "struct"
  /\ \E i \in TopAttributes :
       /\ OnlyAttribute(i) /\ KeysOf(i) = {sfoo, sFOO}
       /\ Cardinality(UnknownKeys(KeysOf(i))) = 1
  /\ \E i \in TopRelationships :
       /\ OnlyRelationship(i) /\ NamesOf(i) = {sbaz, sBaz}
       /\ Cardinality(NamesOf(i) \cap DOMAIN relationships) = 1
       /\ UnknownNames(NamesOf(i)) = NamesOf(i) \cap DOMAIN relationships
       /\ \E k \in RelChecks : log[k].name = sbaz /\ ~log[k].zero

-----------------------------------------------------------------------------
(* Properties of the walk of a map *)

\* the examined fields that hold a map with string keys whose entries are walked
MapChecks ==
  { i \in FieldChecks : log[i].kind = "map" /\ log[i].key = "string"
                        /\ log[i].tagged /\ ~log[i].zero }

\* the keys of the map that the model holds at the path of log[i]
MapKeysAt(i) ==
  LET mv == ValueAt(arg, Split(log[i].path, "/"))
  IN  IF mv.k = "map" /\ ~mv.nil THEN DOMAIN mv.m ELSE {}

\* the positions in the matched paths of the path q and of the paths below
\* it, the fields examined below q
MatchedUnder(q) ==
  { n \in DOMAIN fields : fields[n] = q \/ PointsBelow(fields[n], <<>>, q) }
ExaminedUnder(q) ==
  { n \in FieldChecks : PointsBelow(log[n].path, <<>>, q) }

\* C25: the entries of a map-typed attribute field with string keys are
\* visited in ascending lexicographic order of their keys, each with the path
\* parent/key: the matched paths list parent, then parent/k1 and its
\* descendants, then parent/k2 and its descendants, for keys k1 < k2.
C25_MapOrder ==
  Walked =>
    \A i \in MapChecks :
      LET p == log[i].path
      IN  /\ \A k1, k2 \in MapKeysAt(i) :
               StrLess(k1, k2) =>
                 /\ \A x \in ExaminedUnder(keyPath(p, k1)), y \in ExaminedUnder(keyPath(p, k2)) :
                      x < y
                 /\ \A x \in MatchedUnder(keyPath(p, k1)), y \in MatchedUnder(keyPath(p, k2)) :
                      x < y
          /\ errors = <<>> =>
               /\ \E n \in DOMAIN fields : fields[n] = p
               /\ \A k \in MapKeysAt(i) :
                    /\ \E n \in DOMAIN fields : fields[n] = keyPath(p, k)
                    /\ \A x \in MatchedUnder(keyPath(p, k)), n \in DOMAIN fields :
                         /\ fields[n] = p => n < x
                         /\ fields[n] = keyPath(p, k) => n <= x

\* a map with the keys a and key was walked: the paths of the entry a are
\* matched before the paths of the entry key
C25_Witness ==
  /\ Walked /\ errors = <<>>
  /\ \E i \in MapChecks :
       /\ MapKeysAt(i) = {sa, skey}
       /\ \E x, y, z \in DOMAIN fields :
            /\ x < y /\ y < z
            /\ fields[x] = keyPath(log[i].path, sa)
            /\ fields[y] = keyPath(keyPath(log[i].path, sa), sfoo)
            /\ fields[z] = keyPath(log[i].path, skey)

-----------------------------------------------------------------------------
(* Properties of the relationships declared after a nested struct *)

\* the supplied names that the relationship field d matches, when no other
\* supplied name differs from them in case only
SuppliedFor(d) ==
  LET M == { n \in DOMAIN given.relationships : EqualFold(n, d.name) }
  IN  IF Cardinality(M) = 1 THEN M ELSE {}

\* the relationship field d was handed a relationship
Handed(d) ==
  \E k \in RelChecks : log[k].name = toLowerFirstRune(d.name) /\ ~log[k].zero

\* C26, as claimed: a supplied relationship whose name matches, ignoring
\* case, a relationship field declared anywhere in the walked model is handed
\* to that field and is never reported as 'Relationship does not exist',
\* whatever the order of the declarations of the field and of the nested
\* struct fields walked before it.
C26_DeclaredNeverUnknown ==
  Walked /\ arg.k = "ptr" /\ ~arg.nil /\ arg.e.k = "struct" =>
    \A d \in DeclaredRelationships :
      d.live => \A n \in SuppliedFor(d) : Handed(d) /\ NoRelationshipErrors(n) = {}

-----------------------------------------------------------------------------
(* Properties of the termination of a call *)

\* C27, as claimed: Validate always returns and never panics, for every
\* model and raw input: also for a slice or an array longer than the raw JSON
\* array (or whose raw value is missing), for an accepted to-many
\* relationship whose map is nil, for a nested struct with unexported fields.
C27_NeverPanics ==
  Done /\ call.op = "Validate" => ~panicked

-----------------------------------------------------------------------------
(* Properties of what a call changes *)

\* the value v with the value of every relationship field left out
RECURSIVE WithoutRelationships(_)
WithoutRelationships(v) ==
  IF v.k = "struct"
  THEN [v EXCEPT !.f = [i \in DOMAIN v.f |->
                          IF IsRelationship(v.f[i]) THEN [v.f[i] EXCEPT !.v = VInvalid]
                          ELSE [v.f[i] EXCEPT !.v = WithoutRelationships(v.f[i].v)]]]
  ELSE IF v.k \in {"ptr", "interface"}
  THEN IF v.nil THEN v ELSE [v EXCEPT !.e = WithoutRelationships(v.e)]
  ELSE IF v.k \in {"slice", "array"}
  THEN IF v.k = "slice" /\ v.nil THEN v
       ELSE [v EXCEPT !.s = [i \in DOMAIN v.s |-> WithoutRelationships(v.s[i])]]
  ELSE IF v.k = "map"
  THEN IF v.nil THEN v
       ELSE [v EXCEPT !.m = [x \in DOMAIN v.m |-> WithoutRelationships(v.m[x])]]
  ELSE v

\* the log entries of the relationship fields that were handed a relationship
Consumers(lg) == { k \in DOMAIN lg : lg[k].op = "rel" /\ ~lg[k].zero }

\* what a call of Validate that returns leaves of the relationship set before,
\* of the model m, given the log lg of the call
OnlyConsumed(before, after, lg) ==
  /\ DOMAIN after \subseteq DOMAIN before
  /\ \A n \in DOMAIN after : after[n] = before[n]
  /\ Cardinality(DOMAIN before \ DOMAIN after) = Cardinality(Consumers(lg))
  /\ \A n \in DOMAIN before \ DOMAIN after :
       \E k \in Consumers(lg) : EqualFold(n, lg[k].name) /\ lg[k].data = before[n].data

\* C28: Validate mutates only the relationship set of the object and the
\* relationship fields of the model: when it returns, the relationship set is
\* the initial set without exactly the entries that a relationship field
\* consumed (also those that the binder rejected), the raw attributes are the
\* same, the other fields of the model are the same, and a call rejected for
\* a nil, non-pointer or non-struct model removes nothing.
C28_Frame ==
  [][pc = "ready" /\ call'.op = "Validate" /\ ~panicked' =>
       /\ attributes' = attributes
       /\ OnlyConsumed(relationships, relationships', log')
       /\ WithoutRelationships(model') = WithoutRelationships(model)
       /\ (model.k # "ptr" \/ model.nil \/ model.e.k # "struct") =>
            relationships' = relationships /\ model' = model]_vars

\* Validate returned after a field consumed a relationship that the binder
\* rejected, with another relationship left in the set
C28_Witness ==
  /\ Returned /\ call.op = "Validate"
  /\ Cardinality(DOMAIN given.relationships) = 2
  /\ Cardinality(DOMAIN relationships) = 1
  /\ \E k \in Consumers(log) : log[k].name \notin Range(fields)
  /\ \E k \in DOMAIN errors : errors[k].status = 500

-----------------------------------------------------------------------------
(* Properties of a call that returns errors *)

\* the entries of the linkage of the log entry e that precede the first id
\* that is no number
BeforeOffending(e) ==
  { k \in DOMAIN e.data : \A n \in 1..k : Atoi(e.data[n].id).ok }

\* C29: nothing is rolled back when Validate returns errors: the relationship
\* fields bound before the error keep their linkage, and a to-many map keyed
\* by int keeps the entries inserted for the ids that precede an offending
\* non-numeric id.
C29_NoRollback ==
  Walked /\ errors # <<>> =>
    \A i \in Accepted :
      IF Bindable(log[i]) THEN Bound(RelValue(model, log[i]), log[i])
      ELSE log[i].many /\ log[i].key = "int" /\ ~BadToManyType(log[i]) =>
             \A k \in BeforeOffending(log[i]) :
               /\ Atoi(log[i].data[k].id).n \in DOMAIN RelValue(model, log[i]).m
               /\ \E n \in BeforeOffending(log[i]) :
                    /\ Atoi(log[i].data[n].id).n = Atoi(log[i].data[k].id).n
                    /\ RelValue(model, log[i]).m[Atoi(log[i].data[k].id).n]
                         = IDValue(log[i].data[n])

\* the call returned the error for the second id of a to-many linkage: the
\* to-one field bound before it holds its identifier and the map holds the
\* entry of the first id
C29_Witness ==
  /\ Walked /\ Len(errors) = 1 /\ errors[1].detail = "Invalid resource ID"
  /\ \E i, n \in Accepted :
       /\ i < n
       /\ ~log[i].many /\ Bindable(log[i])
       /\ RelValue(model, log[i]) = IDValue(idFoo)
       /\ log[n].many /\ log[n].key = "int" /\ Len(log[n].data) = 2
       /\ BeforeOffending(log[n]) = {1}
       /\ DOMAIN RelValue(model, log[n]).m = {1}
       /\ RelValue(model, log[n]).m[1] = IDValue(idOne)

-----------------------------------------------------------------------------
(* Properties of Object.Validate *)

\* C23, as claimed: Object.Validate sets the Status only if it is not already
\* set: for every HTTP method, an Object whose Status is not zero before a
\* successful call has the same Status after it; an Object whose Status is
\* zero gets 201 for POST and 200 for PATCH, GET and HEAD; an unsupported
\* method returns a 406 error.
C23_StatusOnlyIfUnset ==
  last.op = "Validate" =>
    /\ last.err = <<>> /\ last.object.Status # 0 => object.Status = last.object.Status
    /\ last.err = <<>> /\ last.object.Status = 0 =>
         object.Status = IF last.method = "POST" THEN 201 ELSE 200
    /\ last.method \notin {"POST", "PATCH", "HEAD", "GET"} =>
         last.err # <<>> /\ last.err[1].status = 406

-----------------------------------------------------------------------------
(* Properties of the Document *)

\* the last call on the document returned an error
FailedCall == last.op \in {"AddObject", "AddError"} /\ last.err # <<>>

\* C30: starting from New(), after any sequence of AddObject and AddError
\* calls the document never holds both data and errors: once an AddError has
\* succeeded the mode is ErrorMode and every later AddObject fails, once an
\* AddObject has succeeded every later AddError fails, and a failed call
\* leaves Data, Errors, Status and Mode unchanged.
C30_DataOrErrors ==
  /\ ~(HasData(document) /\ HasErrors(document))
  /\ HasErrors(document) => document.Mode = ErrorMode
  /\ last.op = "AddObject" /\ HasErrors(last.document) => last.err # <<>>
  /\ last.op = "AddError" /\ HasData(last.document) => last.err # <<>>
  /\ FailedCall => document = last.document

\* after an AddError that succeeded, an AddObject failed and left the
\* document as it was: in ErrorMode, with the error and no data
C30_Witness ==
  /\ last.op = "AddObject" /\ last.ref = TheObject /\ last.err # <<>>
  /\ HasErrors(document) /\ ~HasData(document) /\ document.Mode = ErrorMode
  /\ document.Status = document.Errors[1].status
  /\ document = last.document

=============================================================================
